---- MODULE Spec2Model ----
(***************************************************************************)
(* Generating function of the integral points of a polyhedron              *)
(* (sage/geometry/polyhedron/generating_function.py).                      *)
(*                                                                         *)
(* A coefficient vector (c0, c1, ..., cd) is a sequence of d+1 integers;   *)
(* the source's 0-based position i is position i+1 here.  An element of    *)
(* Zmod(n) is a record [res, modulus].                                     *)
(***************************************************************************)
EXTENDS Integers, Sequences, FiniteSets, TLC

VARIABLES
    cm_args,    \* compositions_mod: the arguments u, m, r, multidimensional
    cm_out,     \* compositions_mod: the list of the emitted tuples
    cm_pc,      \* compositions_mod: "call" | "done"
    gm_eqs,     \* TransformMod.generate_mods: the argument equations
    gm_out,     \* TransformMod.generate_mods: what the call returned or raised
    gm_pc,      \* TransformMod.generate_mods: "call" | "done"
    gf_args,    \* generating_function_of_integral_points: the arguments
                \*   polyhedron, split, result_as_tuple
    gf_rat,     \* ... its local variable result_as_tuple
    gf_todo,    \* ... the split polyhedra the loop has still to visit
    gf_result,  \* ... its local variable result of the loop
    gf_out,     \* ... what the call returned or raised
    gf_pc,      \* ... the statement the call is at
    tr_args,    \* a transform or prepare_equations_transformation: the arguments
    tr_out,     \* ... the transform that was built, or what was raised
    tr_pc,      \* ... "call" | "done"
    br_args,    \* __generating_function_of_integral_points__: the arguments
    br_st,      \* ... its local variables
    br_pc       \* ... the statement the call is at

vars == <<cm_args, cm_out, cm_pc, gm_eqs, gm_out, gm_pc,
          gf_args, gf_rat, gf_todo, gf_result, gf_out, gf_pc,
          tr_args, tr_out, tr_pc, br_args, br_st, br_pc>>

cm_vars == <<cm_args, cm_out, cm_pc>>
gm_vars == <<gm_eqs, gm_out, gm_pc>>
gf_vars == <<gf_args, gf_rat, gf_todo, gf_result, gf_out, gf_pc>>
tr_vars == <<tr_args, tr_out, tr_pc>>
br_vars == <<br_args, br_st, br_pc>>

\* the value of the variables of an operation that is not called
Idle == [pc |-> "idle"]

cm_idle == cm_args = Idle /\ cm_out = Idle /\ cm_pc = "idle"
gm_idle == gm_eqs = Idle /\ gm_out = Idle /\ gm_pc = "idle"
gf_idle ==
    /\ gf_args = Idle /\ gf_rat = Idle /\ gf_todo = Idle
    /\ gf_result = Idle /\ gf_out = Idle /\ gf_pc = "idle"
tr_idle == tr_args = Idle /\ tr_out = Idle /\ tr_pc = "idle"
br_idle == br_args = Idle /\ br_st = Idle /\ br_pc = "idle"

----------------------------------------------------------------------------
(* Bounds of the model *)

MaxTerms == 2

Moduli == {2, 3, 4, 6}

\* entries of the coefficient vectors and remainders in multidimensional mode
MultiCoeffs(m) == {c \in 0..3 : c < m}
MultiRemainders == 0..1

----------------------------------------------------------------------------
(* Integer helpers *)

Abs(x) == IF x < 0 THEN -x ELSE x

RECURSIVE GCD(_, _)
GCD(a, b) == IF b = 0 THEN Abs(a) ELSE GCD(Abs(b), Abs(a) % Abs(b))

LCM(a, b) == IF a = 0 \/ b = 0 THEN 0 ELSE (Abs(a) * Abs(b)) \div GCD(a, b)

SetMax(S) == CHOOSE x \in S : \A y \in S : y <= x

Min2(a, b) == IF a <= b THEN a ELSE b

\* Op(x), with x evaluated once
With(x, Op(_)) == CHOOSE y \in {Op(v) : v \in {x}} : TRUE

RECURSIVE SeqSum(_)
SeqSum(s) == IF s = <<>> THEN 0 ELSE Head(s) + SeqSum(Tail(s))

\* concatenation of a sequence of sequences
RECURSIVE Flatten(_)
Flatten(ss) == IF ss = <<>> THEN <<>> ELSE Head(ss) \o Flatten(Tail(ss))

\* the elements of a finite set of integers, in increasing order
RECURSIVE SortedSeq(_)
SortedSeq(S) ==
    IF S = {} THEN <<>>
    ELSE LET x == CHOOSE x \in S : \A y \in S : x <= y
         IN  <<x>> \o SortedSeq(S \ {x})

SeqRange(s) == {s[i] : i \in DOMAIN s}

Reverse(s) == [i \in DOMAIN s |-> s[Len(s) + 1 - i]]

SelectSeq2(s, Test(_)) == SelectSeq(s, Test)

\* a // b for b # 0 when b divides a
ExactDiv(a, b) == IF b > 0 THEN a \div b ELSE (-a) \div (-b)

\* all sequences of length n over S
SeqsOfLen(S, n) == [1..n -> S]

SeqsUpTo(S, n) == UNION {SeqsOfLen(S, k) : k \in 0..n}

----------------------------------------------------------------------------
(* compositions_mod and _compositions_mod_ *)

\* Z(x) for Z = Zmod(m): the residue of x
Zmod(m, x) == x % m

\* vv.order() of an element vv of Zmod(m): its additive order
order(vv, m) == m \div GCD(Zmod(m, vv), m)

\* m = max(vv.order() for vv in v)
max_order(v, m) == SetMax({order(v[i], m) : i \in DOMAIN v})

\* srange(m): the candidate residues, in the order they are tried
srange_reversed(mm) == [j \in 1..mm |-> mm - j]
srange(mm) == [j \in 1..mm |-> j - 1]

\* r - j*v in Zmod(m)^n
vec_sub_mul(r, j, v, m) == [i \in DOMAIN r |-> Zmod(m, r[i] - j * v[i])]

RECURSIVE _compositions_mod_(_, _, _)
_compositions_mod_(u, r, m) ==
    IF u = <<>>
    THEN IF \A i \in DOMAIN r : r[i] = 0 THEN << <<>> >> ELSE <<>>
    ELSE LET v  == Head(u)
             mm == max_order(v, m)
             js == srange(mm)
             yielded(j) ==
                 LET rec == _compositions_mod_(Tail(u), vec_sub_mul(r, j, v, m), m)
                 IN  [k \in DOMAIN rec |->
                         <<[res |-> j, modulus |-> mm]>> \o rec[k]]
         IN  Flatten([k \in DOMAIN js |-> yielded(js[k])])

\* compositions_mod(u, m, r, multidimensional): u and r are coerced into Zmod(m);
\* in scalar mode every coefficient becomes a vector of length one
compositions_mod(u, m, r, multidimensional) ==
    IF ~multidimensional
    THEN _compositions_mod_([i \in DOMAIN u |-> <<Zmod(m, u[i])>>],
                            <<Zmod(m, r)>>, m)
    ELSE _compositions_mod_([i \in DOMAIN u |-> [c \in DOMAIN u[i] |-> Zmod(m, u[i][c])]],
                            [c \in DOMAIN r |-> Zmod(m, r[c])], m)

----------------------------------------------------------------------------
(* Matrices over ZZ: a matrix is the sequence of its rows; column indices  *)
(* are the source's (0-based), so column c of E is position c+1 of a row.  *)

nrows(E) == Len(E)
ncols(E) == IF E = <<>> THEN 0 ELSE Len(E[1])

\* E.columns()[c]
column(E, c) == [k \in 1..nrows(E) |-> E[k][c + 1]]

\* E.matrix_from_columns(indices)
matrix_from_columns(E, indices) ==
    [k \in 1..nrows(E) |-> [j \in DOMAIN indices |-> E[k][indices[j] + 1]]]

RemoveAt(s, i) == [k \in 1..(Len(s) - 1) |-> IF k < i THEN s[k] ELSE s[k + 1]]

\* the matrix without row i and without its j-th column
Minor(M, i, j) == [k \in 1..(Len(M) - 1) |-> RemoveAt(RemoveAt(M, i)[k], j)]

RECURSIVE Det(_)
Det(M) ==
    IF Len(M) = 0 THEN 1
    ELSE IF Len(M) = 1 THEN M[1][1]
    ELSE SeqSum([j \in 1..Len(M) |->
                    (IF j % 2 = 1 THEN 1 ELSE -1) * M[1][j] * Det(Minor(M, 1, j))])

\* M.rank(): the size of the largest square sub-matrix with nonzero determinant
rank(M) ==
    LET sub(rs, cs) == [k \in DOMAIN rs |-> [j \in DOMAIN cs |-> M[rs[k]][cs[j]]]]
        sizes == {n \in 0..nrows(M) :
                    \E R \in SUBSET (1..nrows(M)), C \in SUBSET (1..ncols(M)) :
                        /\ Cardinality(R) = n
                        /\ Cardinality(C) = n
                        /\ Det(sub(SortedSeq(R), SortedSeq(C))) # 0}
    IN  SetMax(sizes)

\* the adjugate of a square matrix: adj(M) * M = Det(M) * identity
adjugate(M) ==
    [i \in 1..Len(M) |-> [j \in 1..Len(M) |->
        (IF (i + j) % 2 = 0 THEN 1 ELSE -1) * Det(Minor(M, j, i))]]

matrix_mul(A, B) ==
    [i \in 1..Len(A) |-> [j \in 1..ncols(B) |->
        SeqSum([k \in 1..Len(B) |-> A[i][k] * B[k][j]])]]

----------------------------------------------------------------------------
(* EliminateByEquations.prepare_equations_transformation *)

\* the columns in the order of their indices
scan_forward(indices_nonzero) == indices_nonzero

\* reversed(indices_nonzero)
scan_order(indices_nonzero) == Reverse(indices_nonzero)

\* every column is taken
accepts_any(r1, r) == TRUE

\* if r1 > r
accepts(r1, r) == r1 > r

\* for i in reversed(indices_nonzero): the pivot columns, in the order the scan
\* accepts them.  todo holds the columns still to be scanned.
RECURSIVE pivot_scan(_, _, _, _)
pivot_scan(E, todo, indices, r) ==
    IF todo = <<>> THEN indices
    ELSE LET i    == Head(todo)
             cand == Append(indices, i)
             r1   == rank(matrix_from_columns(E, cand))
         IN  IF accepts(r1, r)
             THEN IF Len(cand) >= nrows(E) THEN cand
                  ELSE pivot_scan(E, Tail(todo), cand, r1)
             ELSE pivot_scan(E, Tail(todo), indices, r)

\* The rational matrix TE = E.matrix_from_columns(indices).inverse() * E is kept
\* as the integer matrix num and the common denominator den > 0: the entry of
\* TE in row k and column c is num[k][c+1] / den.
prepare_equations_transformation(E) ==
    LET indices_nonzero ==
            SelectSeq2([c \in 1..(ncols(E) - 1) |-> c],
                       LAMBDA c : \E k \in 1..nrows(E) : E[k][c + 1] # 0)
        scanned == pivot_scan(E, scan_order(indices_nonzero), <<>>, 0)
        indices == Reverse(scanned)
        indicesn == <<0>> \o SelectSeq2(indices_nonzero,
                                        LAMBDA c : c \notin SeqRange(indices))
        Ep == matrix_from_columns(E, indices)
        D  == Det(Ep)
        N  == matrix_mul(adjugate(Ep), E)
    IN  IF Len(scanned) # nrows(E)
        THEN [raised |-> "AssertionError"]
        ELSE [raised |-> "",
              TE |-> [num |-> IF D < 0 THEN [k \in DOMAIN N |-> [c \in DOMAIN N[k] |-> -N[k][c]]]
                              ELSE N,
                      den |-> Abs(D)],
              indices |-> indices,
              indicesn |-> indicesn]

----------------------------------------------------------------------------
(* TransformMod.generate_mods *)

\* e.denominator() of the entry n/den of TE
denominator(n, den) == den \div GCD(n, den)

RECURSIVE lcm_seq(_)
lcm_seq(s) == IF s = <<>> THEN 1 ELSE LCM(Head(s), lcm_seq(Tail(s)))

\* A residue-class configuration (a mod dictionary) is a function from
\* coordinate indices to pairs <<modulus, residue>>.
mod_of(a, TEin) ==
    LET constrained == {j \in DOMAIN TEin : a[j].modulus > 1}
    IN  [i \in {TEin[j] - 1 : j \in constrained} |->
            LET j == CHOOSE j \in constrained : TEin[j] - 1 = i
            IN  <<a[j].modulus, a[j].res>>]

\* ZZ(cc*m) for cc in cols[c]
scaled(TE, m, c) == [k \in 1..nrows(TE.num) |-> ExactDiv(TE.num[k][c + 1] * m, TE.den)]

generate_mods(equations) ==
    With(prepare_equations_transformation(equations), LAMBDA P :
        IF P.raised # "" THEN P
        ELSE
        With(lcm_seq(Flatten([k \in DOMAIN P.TE.num |->
                 [c \in DOMAIN P.TE.num[k] |-> denominator(P.TE.num[k][c], P.TE.den)]])),
             LAMBDA m :
                 IF m = 1
                 THEN [raised |-> "", mods |-> << <<>> >>]
                 ELSE With(compositions_mod(
                               [j \in DOMAIN Tail(P.indicesn) |->
                                   scaled(P.TE, m, Tail(P.indicesn)[j])],
                               m,
                               [k \in 1..nrows(P.TE.num) |-> -(scaled(P.TE, m, 0)[k])],
                               TRUE),
                           LAMBDA pre_mods :
                               [raised |-> "",
                                mods |-> [k \in DOMAIN pre_mods |->
                                             mod_of(pre_mods[k], Tail(P.indicesn))]])))

----------------------------------------------------------------------------
(* Transforms of the H-representation.  The ring B has the generators      *)
(* y_0 .. y_{d-1}; a monomial of B is its exponent vector, a sequence of   *)
(* length d.  A transform is a record with the fields inequalities,        *)
(* equations, factor (a monomial) and rules (a function from generator     *)
(* indices to monomials); raised names the exception that ended it.        *)

unit_vector(d, i) == [k \in 1..d |-> IF k = i + 1 THEN 1 ELSE 0]

zero_vector(d) == [k \in 1..d |-> 0]

vec_add(a, b) == [k \in DOMAIN a |-> a[k] + b[k]]

vec_scale(c, a) == [k \in DOMAIN a |-> c * a[k]]

RECURSIVE vec_sum(_, _)
vec_sum(d, s) == IF s = <<>> THEN zero_vector(d) ELSE vec_add(Head(s), vec_sum(d, Tail(s)))

\* t.subs(rules) for the monomial t: a generator without a rule stays
subs(t, rules) ==
    vec_sum(Len(t), [k \in DOMAIN t |->
        vec_scale(t[k], IF (k - 1) \in DOMAIN rules THEN rules[k - 1]
                        ELSE unit_vector(Len(t), k - 1))])

----------------------------------------------------------------------------
(* TransformMod._transform_ *)

\* the matrix with the moduli on the diagonal and no residue
mod_matrix_diagonal(mod, i, j) ==
    IF i = j THEN (IF i >= 1 /\ (i - 1) \in DOMAIN mod THEN mod[i - 1][1] ELSE 1)
    ELSE 0

\* the entry in row i and column j of T = matrix(ZZ, n, n, D), rows and
\* columns 0..n-1
mod_matrix(mod, i, j) ==
    IF i = j THEN (IF i >= 1 /\ (i - 1) \in DOMAIN mod THEN mod[i - 1][1] ELSE 1)
    ELSE IF j = 0 /\ i >= 1 /\ (i - 1) \in DOMAIN mod THEN mod[i - 1][2]
    ELSE 0

TransformMod(inequalities, equations, d, mod) ==
    LET n == d + 1
        T(i, j) == mod_matrix(mod, i, j)
        \* vector(e)*T
        times(e) == [j \in 1..n |-> SeqSum([i \in 1..n |-> e[i] * T(i - 1, j - 1)])]
        \* the column j of T without its entry in row 0
        col(j) == [i \in 1..d |-> T(i, j)]
    IN  [raised |-> "",
         factor |-> col(0),
         rules |-> [i \in 0..(d - 1) |-> col(i + 1)],
         inequalities |-> [k \in DOMAIN inequalities |-> times(inequalities[k])],
         equations |-> [k \in DOMAIN equations |-> times(equations[k])]]

----------------------------------------------------------------------------
(* EliminateByEquations._transform_ *)

\* the exponent c of zz**c
kept_exponent(c, den) == ExactDiv(c, den)

\* the exponent -c of zz**(-c) for the entry c of TE
eliminated_exponent(c, den) == ExactDiv(-c, den)

is_zero_matrix(E) == \A k \in DOMAIN E : \A c \in DOMAIN E[k] : E[k][c] = 0

\* the column index itself
column_index(i) == i

\* i-1 for i in indices: the coordinate of the column i of E
coordinate_slot(i) == i - 1

\* the inequalities with the coordinates that occur in the equations removed
inequalities_without_equation_coordinates(inequalities, equations) ==
    [k \in DOMAIN inequalities |->
        [c \in DOMAIN inequalities[k] |->
            IF c >= 2 /\ \E e \in DOMAIN equations : equations[e][c] # 0
            THEN 0 ELSE inequalities[k][c]]]

\* self.inequalities of a transform constructed with (inequalities, equations):
\* set by __init__ and assigned nowhere in EliminateByEquations._transform_
self_inequalities(inequalities, equations) == inequalities

EliminateByEquations(inequalities, equations, d) ==
    IF is_zero_matrix(equations)
    THEN [raised |-> "", factor |-> zero_vector(d), rules |-> <<>>, indices |-> <<>>,
          inequalities |-> self_inequalities(inequalities, equations),
          equations |-> equations]
    ELSE
    With(prepare_equations_transformation(equations), LAMBDA P :
        IF P.raised # "" THEN [raised |-> P.raised]
        ELSE
        LET TE == P.TE
            \* y * prod(zz**(-c) for zz, c in zip(z, col)) for the column i of TE;
            \* y is 1 for i = 0 and the generator y_{i-1} otherwise
            image(i) ==
                vec_add(IF i = 0 THEN zero_vector(d) ELSE unit_vector(d, i - 1),
                        vec_sum(d, [k \in DOMAIN P.indices |->
                            vec_scale(eliminated_exponent(TE.num[k][i + 1], TE.den),
                                      unit_vector(d, P.indices[k] - 1))]))
            integral == \A j \in DOMAIN P.indicesn : \A k \in DOMAIN TE.num :
                            TE.num[k][P.indicesn[j] + 1] % TE.den = 0
            others == Tail(P.indicesn)
        IN  IF ~integral
            THEN \* a generator of B is raised to a power that is no integer
                 [raised |-> "NonIntegralExponent"]
            ELSE [raised |-> "",
                  factor |-> image(0),
                  rules |-> [i \in {others[j] - 1 : j \in DOMAIN others} |-> image(i + 1)],
                  indices |-> [k \in DOMAIN P.indices |-> coordinate_slot(P.indices[k])],
                  inequalities |-> self_inequalities(inequalities, equations),
                  equations |-> <<>>])

----------------------------------------------------------------------------
(* SplitOffSimpleInequalities._transform_ *)

ones(coeffs) == {i \in 1..(Len(coeffs) - 1) : coeffs[i + 1] = 1}
mones(coeffs) == {i \in 1..(Len(coeffs) - 1) : coeffs[i + 1] = -1}
absgetwo(coeffs) == {i \in 1..(Len(coeffs) - 1) : Abs(coeffs[i + 1]) >= 2}

\* the first loop without the test of the constant of a chain inequality
classify_any_constant(coeffs) ==
    IF \A c \in DOMAIN coeffs : coeffs[c] >= 0 THEN "skip"
    ELSE IF Cardinality(ones(coeffs)) = 1 /\ mones(coeffs) = {} /\ absgetwo(coeffs) = {}
         THEN (IF coeffs[1] < 0 THEN "filtered" ELSE "dropped")
    ELSE IF /\ Cardinality(ones(coeffs)) = 1
            /\ Cardinality(mones(coeffs)) = 1
            /\ absgetwo(coeffs) = {}
         THEN "chain"
    ELSE "filtered"

\* "skip" | "filtered" | "chain" | "dropped": what the first loop does with coeffs
classify(coeffs) ==
    IF \A c \in DOMAIN coeffs : coeffs[c] >= 0 THEN "skip"
    ELSE IF Cardinality(ones(coeffs)) = 1 /\ mones(coeffs) = {} /\ absgetwo(coeffs) = {}
         THEN (IF coeffs[1] < 0 THEN "filtered" ELSE "dropped")
    ELSE IF /\ Cardinality(ones(coeffs)) = 1
            /\ Cardinality(mones(coeffs)) = 1
            /\ absgetwo(coeffs) = {}
            /\ coeffs[1] <= 0
         THEN "chain"
    ELSE "filtered"

the(S) == CHOOSE x \in S : TRUE

\* the edge of a chain inequality, from ones[0] to mones[0]
chain_edge_reversed(coeffs) == <<the(ones(coeffs)), the(mones(coeffs))>>

\* the edge (mones[0], ones[0]) of a chain inequality
chain_edge(coeffs) == <<the(mones(coeffs)), the(ones(coeffs))>>

\* the first chain inequality of an edge sets its constant
chain_links_first(inequalities) ==
    LET chains == {k \in DOMAIN inequalities : classify(inequalities[k]) = "chain"}
    IN  [e \in {chain_edge(inequalities[k]) : k \in chains} |->
            inequalities[CHOOSE k \in chains :
                            /\ chain_edge(inequalities[k]) = e
                            /\ \A l \in chains :
                                   chain_edge(inequalities[l]) = e => k <= l][1]]

\* chain_links: the last chain inequality of an edge sets its constant
chain_links(inequalities) ==
    LET chains == {k \in DOMAIN inequalities : classify(inequalities[k]) = "chain"}
    IN  [e \in {chain_edge(inequalities[k]) : k \in chains} |->
            inequalities[SetMax({k \in chains : chain_edge(inequalities[k]) = e})][1]]

\* G.topological_sort(): among the vertices whose in-neighbours are all
\* sorted, the smallest comes first; <<-1>> ends the order of a graph with a cycle
RECURSIVE topological_sort(_, _)
topological_sort(V, edges) ==
    IF V = {} THEN <<>>
    ELSE LET ready == {v \in V : \A e \in edges : e[2] = v => e[1] \notin V}
         IN  IF ready = {} THEN <<-1>>
             ELSE LET v == CHOOSE v \in ready : \A w \in ready : v <= w
                  IN  <<v>> \o topological_sort(V \ {v}, edges)

\* the pairs (n, p) of the in-neighbours in the order of the nodes n, unsorted
RECURSIVE in_order_of_nodes(_)
in_order_of_nodes(NP) ==
    IF NP = {} THEN <<>>
    ELSE LET first == CHOOSE a \in NP : \A b \in NP : a[1] <= b[1]
         IN  <<first>> \o in_order_of_nodes(NP \ {first})

\* sorted(pairs, key=lambda k: k[1]) for the pairs (n, p) of the in-neighbours,
\* which are iterated in increasing toporder
RECURSIVE sorted_by_potential(_)
sorted_by_potential(NP) ==
    IF NP = {} THEN <<>>
    ELSE LET first == CHOOSE a \in NP : \A b \in NP :
                          a[2] < b[2] \/ (a[2] = b[2] /\ a[1] <= b[1])
         IN  <<first>> \o sorted_by_potential(NP \ {first})

\* len(tuple(takewhile(lambda u: u[0] == u[1], zip(p, q))))
RECURSIVE common_prefix_len(_, _)
common_prefix_len(p, q) ==
    IF p = <<>> \/ q = <<>> \/ Head(p) # Head(q) THEN 0
    ELSE 1 + common_prefix_len(Tail(p), Tail(q))

\* the loop "for v in G.topological_sort()": st holds potential, paths and
\* inequalities_extra
\* one pass of the loop "for v in G.topological_sort()" with the sorted pairs NP
chain_step(v, NP, dim, st) ==
    LET p  == IF NP = <<>> THEN 0 ELSE NP[1][2]
        path == (IF NP = <<>> THEN <<>> ELSE st.paths[NP[1][1]]) \o <<v>>
        extra(np) ==
            LET ell == common_prefix_len(st.paths[np[1]], path)
                pv  == SeqRange(SubSeq(path, ell + 1, Len(path)))
                pn  == SeqRange(SubSeq(st.paths[np[1]], ell + 1, Len(st.paths[np[1]])))
            IN  [u \in 1..dim |->
                    IF u = 1 THEN np[2] - p
                    ELSE IF (u - 1) \in pn THEN -1
                    ELSE IF (u - 1) \in pv THEN 1
                    ELSE 0]
    IN  [potential |-> [w \in DOMAIN st.potential \cup {v} |->
                           IF w = v THEN p ELSE st.potential[w]],
         paths |-> [w \in DOMAIN st.paths \cup {v} |->
                       IF w = v THEN path ELSE st.paths[w]],
         extra |-> st.extra \o (IF NP = <<>> THEN <<>>
                                ELSE [k \in 1..(Len(NP) - 1) |-> extra(NP[k + 1])])]

\* the loop "for v in G.topological_sort()": st holds potential, paths and
\* inequalities_extra
RECURSIVE chain_walk(_, _, _, _)
chain_walk(todo, links, dim, st) ==
    IF todo = <<>> THEN st
    ELSE
    With(sorted_by_potential({<<e[1], st.potential[e[1]] + links[e]>> :
                                 e \in {e \in DOMAIN links : e[2] = Head(todo)}}),
         LAMBDA NP :
             With(chain_step(Head(todo), NP, dim, st),
                  LAMBDA st1 : chain_walk(Tail(todo), links, dim, st1)))

\* the transformation of the matrix T of the chain links
split_off(inequalities, equations, d, dim, links, toporder) ==
    IF toporder # <<>> /\ toporder[Len(toporder)] = -1
    THEN \* the digraph is not acyclic
         [raised |-> "TypeError"]
    ELSE
    With(chain_walk(toporder, links, dim,
                    [potential |-> <<>>, paths |-> <<>>, extra |-> <<>>]),
         LAMBDA st :
        LET V == SeqRange(toporder)
            inequalities_filtered ==
                SelectSeq2(inequalities, LAMBDA coeffs : classify(coeffs) = "filtered")
            \* T = matrix(ZZ, dim, dim, D), rows and columns 0..dim-1
            T(u, v) == IF u = v THEN 1
                       ELSE IF v \in V /\ u = 0 THEN -st.potential[v]
                       ELSE IF v \in V /\ u \in SeqRange(st.paths[v]) THEN 1
                       ELSE 0
            \* T*vector(ieq)
            times(ieq) == [u \in 1..dim |->
                              SeqSum([v \in 1..dim |-> T(u - 1, v - 1) * ieq[v]])]
            row(u) == [v \in 1..d |-> T(u, v)]
        IN  [raised |-> "",
             inequalities |-> [k \in DOMAIN inequalities_filtered |->
                                  times(inequalities_filtered[k])] \o st.extra,
             equations |-> equations,
             factor |-> row(0),
             rules |-> [i \in 0..(Min2(d, dim - 1) - 1) |-> row(i + 1)],
             potential |-> st.potential,
             paths |-> st.paths])

SplitOffSimpleInequalities(inequalities, equations, d) ==
    IF inequalities = <<>>
    THEN \* dim is never bound
         [raised |-> "NameError"]
    ELSE
    With(chain_links(inequalities), LAMBDA links :
        With(topological_sort({e[1] : e \in DOMAIN links} \cup {e[2] : e \in DOMAIN links},
                              DOMAIN links),
             LAMBDA toporder :
                 split_off(inequalities, equations, d,
                           Len(inequalities[Len(inequalities)]), links, toporder)))

----------------------------------------------------------------------------
(* Generating functions.  A rational function of B is modelled by its      *)
(* power series: the sequence of the exponent vectors of its monomials, a  *)
(* monomial with the coefficient c being listed c times.  The exponent     *)
(* vectors the variables of Omega range over are bounded by MaxCoord; all  *)
(* three transforms map an exponent vector to one that is componentwise at *)
(* least as large on the coordinates that are not eliminated, so the       *)
(* coefficients of the exponent vectors within the bound are exact.        *)

MaxCoord == 6

BoxVectors(d) == [1..d -> 0..MaxCoord]

\* the vectors of BoxVectors(d) in lexicographic order
RECURSIVE BoxSeq(_)
BoxSeq(d) ==
    IF d = 0 THEN << <<>> >>
    ELSE With(BoxSeq(d - 1), LAMBDA shorter :
             Flatten([k \in DOMAIN shorter |->
                         [c \in 1..(MaxCoord + 1) |-> Append(shorter[k], c - 1)]]))

coefficient(series, v) == Cardinality({k \in DOMAIN series : series[k] = v})

\* the value of the linear form coeffs at the point v
evaluate(coeffs, v) == coeffs[1] + SeqSum([i \in DOMAIN v |-> coeffs[i + 1] * v[i]])

\* The series of MacMahon's Omega operator applied to
\* numerator / prod(1 - t for t in terms), where the exponent of the
\* variable of the k-th inequality in the monomial of the point v is the
\* value of the inequality at v: the points with all values nonnegative stay.
Omega_series(inequalities, d, skip_indices) ==
    SelectSeq2(BoxSeq(d), LAMBDA v :
        /\ \A i \in SeqRange(skip_indices) : v[i + 1] = 0
        /\ \A k \in DOMAIN inequalities : evaluate(inequalities[k], v) >= 0)

\* The pair (numerator, terms) that _simplify_ returns.  Without an
\* inequality no Omega step is taken and the pair is 1 and the generators
\* that are not skipped, a monomial being its exponent vector; the pair that
\* _Omega_ computes from inequalities is not represented (known is FALSE).
Omega_pair(inequalities, d, skip_indices) ==
    IF inequalities = <<>>
    THEN LET kept == SelectSeq2([i \in 1..d |-> i - 1],
                                LAMBDA i : i \notin SeqRange(skip_indices))
         IN  [known |-> TRUE,
              numerator |-> zero_vector(d),
              terms |-> [k \in DOMAIN kept |-> unit_vector(d, kept[k])]]
    ELSE [known |-> FALSE, numerator |-> <<>>, terms |-> <<>>]

\* A monomial of the ring L over B with one variable mu_k per inequality:
\* y is its exponent vector in the generators of B and mu the sequence of
\* its exponents in mu_0, mu_1, ...

\* the generator y_i of B as a monomial of L
generator_in_L(d, i, n) == [y |-> unit_vector(d, i), mu |-> [k \in 1..n |-> 0]]

\* every term is taken for its generator
any_term(y, t) == TRUE

\* y == t
same_term(y, t) == y = t

\* The setup of lines 613-628: numerator is multiplied by l**constant and
\* the term of the coordinate i by l**c for its coefficient c, for the
\* variable l of each inequality; the terms of skip_indices must be their
\* generators and are left out.
Omega_setup(inequalities, d, skip_indices) ==
    LET n == Len(inequalities)
        numerator == [y |-> zero_vector(d),
                      mu |-> [k \in 1..n |-> inequalities[k][1]]]
        terms == [i \in 1..d |->
                     [y |-> unit_vector(d, i - 1),
                      mu |-> [k \in 1..n |-> inequalities[k][i + 1]]]]
    IN  IF \E i \in SeqRange(skip_indices) :
               ~same_term(generator_in_L(d, i, n), terms[i + 1])
        THEN \* assert all(y == t for y, t in ...)
             [raised |-> "AssertionError"]
        ELSE [raised |-> "",
              numerator |-> numerator,
              terms |-> SelectSeq2(terms, LAMBDA t :
                            \A i \in SeqRange(skip_indices) : t.y # unit_vector(d, i))]

_generating_function_via_Omega_(inequalities, d, skip_indices) ==
    IF Omega_setup(inequalities, d, skip_indices).raised # ""
    THEN [raised |-> Omega_setup(inequalities, d, skip_indices).raised]
    ELSE [raised |-> "",
          series |-> Omega_series(inequalities, d, skip_indices),
          pair |-> Omega_pair(inequalities, d, skip_indices)]

\* TransformHrepresentation.apply_rules on the series of (numerator, terms)
apply_rules(T, series) ==
    [k \in DOMAIN series |-> vec_add(subs(series[k], T.rules), T.factor)]

\* TransformHrepresentation.apply_rules on the pair (numerator, terms)
apply_rules_pair(T, pair) ==
    IF ~pair.known THEN pair
    ELSE [known |-> TRUE,
          numerator |-> vec_add(subs(pair.numerator, T.rules), T.factor),
          terms |-> [k \in DOMAIN pair.terms |-> subs(pair.terms[k], T.rules)]]

\* a is before b in the lexicographic order of tuples of integers
RECURSIVE tuple_less(_, _)
tuple_less(a, b) ==
    IF b = <<>> THEN FALSE
    ELSE IF a = <<>> THEN TRUE
    ELSE IF Head(a) # Head(b) THEN Head(a) < Head(b)
    ELSE tuple_less(Tail(a), Tail(b))

\* key(t): (-sum(abs(d) for d in D), D) for the exponent vector D of t
key(t) == <<-SeqSum([k \in DOMAIN t |-> Abs(t[k])])>> \o t

\* the terms with the smallest key first
RECURSIVE sorted_ascending(_)
sorted_ascending(terms) ==
    IF terms = <<>> THEN <<>>
    ELSE LET k == CHOOSE k \in DOMAIN terms :
                      \A j \in DOMAIN terms :
                          tuple_less(key(terms[k]), key(terms[j])) \/ terms[k] = terms[j]
         IN  <<terms[k]>> \o sorted_ascending(
                 [j \in 1..(Len(terms) - 1) |-> IF j < k THEN terms[j] ELSE terms[j + 1]])

\* the terms with the smallest key first, as sorted without reverse=True
sorted_not_reversed(terms) == sorted_ascending(terms)

\* the terms with the largest key first
sorted_descending(terms) == Reverse(sorted_ascending(terms))

\* if sort_factors: terms = sorted(terms, key=key, reverse=True)
sort_terms(pair, sort_factors) ==
    IF sort_factors /\ pair.known
    THEN [pair EXCEPT !.terms = sorted_descending(pair.terms)]
    ELSE pair

\* Factorization([], unit=0)
ZeroFactorization ==
    [unit |-> 0, series |-> <<>>, known |-> TRUE, numerator |-> <<>>, terms |-> <<>>]

\* Factorization([(numerator, 1)] + list((1-t, -1) for t in terms)): the
\* numerator, then the factors 1 - t in the order of terms
Factorization(series, pair) ==
    [unit |-> 1, series |-> series, known |-> pair.known,
     numerator |-> pair.numerator, terms |-> pair.terms]

\* the order in which the transforms apply their rules to (numerator, terms)
rules_forward == <<"T_mod", "T_equations", "T_inequalities">>
rules_order == <<"T_inequalities", "T_equations", "T_mod">>

\* the transform of the name
transform_of(name, T_mod, T_equations, T_inequalities) ==
    CASE name = "T_mod" -> T_mod
      [] name = "T_equations" -> T_equations
      [] name = "T_inequalities" -> T_inequalities

\* the Omega step and the rules of the three transforms, applied in reverse
via_Omega_and_back(T_mod, T_equations, T_inequalities, d, sort_factors) ==
    IF T_inequalities.raised # "" THEN [raised |-> T_inequalities.raised]
    ELSE IF T_inequalities.equations # <<>> THEN [raised |-> "AssertionError"]
    ELSE
    With(_generating_function_via_Omega_(T_inequalities.inequalities, d,
                                         T_equations.indices),
         LAMBDA O :
             IF O.raised # "" THEN [raised |-> O.raised]
             ELSE
             With(transform_of(rules_order[1], T_mod, T_equations, T_inequalities),
                  LAMBDA T1 :
             With(transform_of(rules_order[2], T_mod, T_equations, T_inequalities),
                  LAMBDA T2 :
             With(transform_of(rules_order[3], T_mod, T_equations, T_inequalities),
                  LAMBDA T3 :
                  [raised |-> "",
                   value |-> Factorization(
                       apply_rules(T3, apply_rules(T2, apply_rules(T1, O.series))),
                       sort_terms(
                           apply_rules_pair(T3,
                               apply_rules_pair(T2, apply_rules_pair(T1, O.pair))),
                           sort_factors))]))))

__generating_function_of_integral_points__(indices, inequalities, equations, mod, sort_factors) ==
    With(TransformMod(inequalities, equations, Len(indices), mod), LAMBDA T_mod :
        With(EliminateByEquations(T_mod.inequalities, T_mod.equations, Len(indices)),
             LAMBDA T_equations :
                 IF T_equations.raised # "" THEN [raised |-> T_equations.raised]
                 ELSE With(SplitOffSimpleInequalities(T_equations.inequalities,
                                                      T_equations.equations, Len(indices)),
                           LAMBDA T_inequalities :
                               via_Omega_and_back(T_mod, T_equations, T_inequalities,
                                                  Len(indices), sort_factors))))

\* tuple(__generating_function_of_integral_points__(...) for mod in mods):
\* the first branch that raises ends the call
RECURSIVE branches(_, _, _, _, _)
branches(indices, inequalities, equations, mods, sort_factors) ==
    IF mods = <<>> THEN [raised |-> "", value |-> <<>>]
    ELSE With(__generating_function_of_integral_points__(
                  indices, inequalities, equations, Head(mods), sort_factors),
              LAMBDA first :
                  IF first.raised # "" THEN [raised |-> first.raised]
                  ELSE With(branches(indices, inequalities, equations, Tail(mods),
                                     sort_factors),
                            LAMBDA rest :
                                IF rest.raised # "" THEN rest
                                ELSE [raised |-> "",
                                      value |-> <<first.value>> \o rest.value]))

\* The keyword arguments kwds: indices is None or a tuple, sort_factors a
\* truth value.
\* the indices of the first inequality, whatever indices is
indices_of_first(indices, inequalities) ==
    [k \in 1..(Len(inequalities[1]) - 1) |-> k - 1]

\* if indices is None: indices = range(len(inequalities[0]) - 1)
default_indices(indices, inequalities) ==
    IF indices.type = "NoneType"
    THEN [k \in 1..(Len(inequalities[1]) - 1) |-> k - 1]
    ELSE indices.items

\* any(len(e) != n for e in vectors)
length_mismatch(vectors, n) == \E k \in DOMAIN vectors : Len(vectors[k]) # n

\* the exception of the comparison of the lengths
not_all_same_length == "ValueError"

\* raise NotImplementedError('no inequality given')
no_inequality_given == "NotImplementedError"

\* polyhedron is a record with the fields empty, inequalities and equations
\* of its H-representation
_generating_function_of_integral_points_(polyhedron, kwds) ==
    IF polyhedron.empty THEN [raised |-> "", value |-> <<ZeroFactorization>>]
    ELSE
    LET inequalities == polyhedron.inequalities
        equations == polyhedron.equations
    IN  IF inequalities = <<>> THEN [raised |-> no_inequality_given]
        ELSE
        LET indices == default_indices(kwds.indices, inequalities)
            n == Len(indices) + 1
        IN  IF length_mismatch(inequalities, n)
            THEN [raised |-> "ValueError"]
            ELSE IF length_mismatch(equations, n)
            THEN [raised |-> "ValueError"]
            ELSE With(generate_mods(equations), LAMBDA M :
                     IF M.raised # "" THEN [raised |-> M.raised]
                     ELSE branches(indices, inequalities, equations, M.mods,
                                   kwds.sort_factors))

----------------------------------------------------------------------------
(* Specification SpecCM: one call of compositions_mod *)

ScalarArgs ==
    {[u |-> u, m |-> m, r |-> r, multidimensional |-> FALSE] :
        <<m, u, r>> \in UNION {{m} \X SeqsUpTo(0..(m-1), MaxTerms) \X (0..(m-1)) :
                                 m \in Moduli}}

MultiArgs ==
    {[u |-> u, m |-> m, r |-> r, multidimensional |-> TRUE] :
        <<m, u, r>> \in UNION {{m} \X SeqsUpTo(SeqsOfLen(MultiCoeffs(m), 2), MaxTerms)
                                   \X SeqsOfLen(MultiRemainders, 2) :
                                 m \in Moduli}}

InitCM ==
    /\ \/ cm_args \in ScalarArgs
       \/ cm_args \in MultiArgs
    /\ cm_out = <<>>
    /\ cm_pc = "call"
    /\ gm_idle /\ gf_idle /\ tr_idle /\ br_idle

CallCompositionsMod ==
    /\ cm_pc = "call"
    /\ cm_out' = compositions_mod(cm_args.u, cm_args.m, cm_args.r,
                                  cm_args.multidimensional)
    /\ cm_pc' = "done"
    /\ UNCHANGED <<cm_args, gm_vars, gf_vars, tr_vars, br_vars>>

NextCM == CallCompositionsMod

SpecCM == InitCM /\ [][NextCM]_vars

----------------------------------------------------------------------------
(* Specification SpecMods: one call of TransformMod.generate_mods *)

\* one equation in three variables
SingleEquations == SeqsOfLen(-1..1, 1) \X SeqsOfLen(-3..3, 3)

\* the equations of a system of two equations in three variables
PairedEquations == SeqsOfLen(0..1, 1) \X SeqsOfLen({-3, -2, 0, 1}, 3)

EquationSystems ==
    {<<e[1] \o e[2]>> : e \in SingleEquations}
        \cup {<<e[1] \o e[2], f[1] \o f[2]>> : e \in PairedEquations, f \in PairedEquations}
        \cup {<<>>}

InitMods ==
    /\ gm_eqs \in EquationSystems
    /\ gm_out = Idle
    /\ gm_pc = "call"
    /\ cm_idle /\ gf_idle /\ tr_idle /\ br_idle

CallGenerateMods ==
    /\ gm_pc = "call"
    /\ gm_out' = generate_mods(gm_eqs)
    /\ gm_pc' = "done"
    /\ UNCHANGED <<gm_eqs, cm_vars, gf_vars, tr_vars, br_vars>>

NextMods == CallGenerateMods

SpecMods == InitMods /\ [][NextMods]_vars

----------------------------------------------------------------------------
(* Specifications of one call of a transform or of                         *)
(* prepare_equations_transformation.  The arguments are the record of op,  *)
(* inequalities, equations, the number d of generators of B, and mod.      *)

TransformArgs(op, inequalities, equations, d, mod) ==
    [op |-> op, inequalities |-> inequalities, equations |-> equations,
     d |-> d, mod |-> mod]

InitTransform(Args) ==
    /\ tr_args \in Args
    /\ tr_out = Idle
    /\ tr_pc = "call"
    /\ cm_idle /\ gm_idle /\ gf_idle /\ br_idle

\* the pairs (modulus, residue)
ModPairs == {<<2, 0>>, <<2, 1>>, <<3, 0>>, <<3, 1>>, <<3, 2>>}

\* the mod dictionaries on the coordinates 0 .. d-1
ModDicts(d) == UNION {[S -> ModPairs] : S \in SUBSET (0..(d - 1))}

TransformModArgs ==
    {TransformArgs("TransformMod", <<ieq>>, eqs, 2, mod) :
        ieq \in SeqsOfLen(-1..1, 3),
        eqs \in {<<>>, << <<0, 1, -1>> >>, << <<-1, 2, 1>> >>},
        mod \in ModDicts(2)}

InitTransformMod == InitTransform(TransformModArgs)

CallTransformMod ==
    /\ tr_pc = "call"
    /\ tr_args.op = "TransformMod"
    /\ tr_out' = TransformMod(tr_args.inequalities, tr_args.equations,
                              tr_args.d, tr_args.mod)
    /\ tr_pc' = "done"
    /\ UNCHANGED <<tr_args, cm_vars, gm_vars, gf_vars, br_vars>>

NextTransformMod == CallTransformMod

SpecTransformMod == InitTransformMod /\ [][NextTransformMod]_vars

\* the equations in three variables that are eliminated
EliminatedEquations ==
    {<<e[1] \o e[2]>> : e \in SeqsOfLen(-1..1, 1) \X SeqsOfLen(-2..2, 3)}
        \cup {<<e[1] \o e[2], f[1] \o f[2]>> :
                 e \in SeqsOfLen(0..1, 1) \X SeqsOfLen(-1..1, 3),
                 f \in SeqsOfLen(0..1, 1) \X SeqsOfLen(-1..1, 3)}
        \cup {<<>>}

EliminateInequalities ==
    {<<>>, << <<0, 1, 0, 0>>, <<2, -1, 0, 0>> >>, << <<-1, 1, 1, 1>> >>,
     << <<0, -1, 1, 0>>, <<2, -1, -1, 0>> >>}

EliminateByEquationsArgs ==
    {TransformArgs("EliminateByEquations", ieqs, eqs, 3, <<>>) :
        ieqs \in EliminateInequalities, eqs \in EliminatedEquations}

InitEliminateByEquations == InitTransform(EliminateByEquationsArgs)

CallEliminateByEquations ==
    /\ tr_pc = "call"
    /\ tr_args.op = "EliminateByEquations"
    /\ tr_out' = EliminateByEquations(tr_args.inequalities, tr_args.equations,
                                      tr_args.d)
    /\ tr_pc' = "done"
    /\ UNCHANGED <<tr_args, cm_vars, gm_vars, gf_vars, br_vars>>

NextEliminateByEquations == CallEliminateByEquations

SpecEliminateByEquations == InitEliminateByEquations /\ [][NextEliminateByEquations]_vars

\* x_b - x_a + constant >= 0
ChainInequality(a, b, constant) ==
    [i \in 1..4 |-> IF i = 1 THEN constant
                    ELSE IF i = b + 1 THEN 1 ELSE IF i = a + 1 THEN -1 ELSE 0]

\* the chain inequalities in three variables
ChainInequalities ==
    {ChainInequality(a, b, c) : a \in 1..3, b \in 1..3, c \in -1..0} \ {<<-1, 0, 0, 0>>,
                                                                         <<0, 0, 0, 0>>}

\* inequalities that are skipped, bound one variable from below or are left
\* to Omega
OtherInequalities ==
    {<<0, 1, 0, 0>>, <<1, 0, 0, 1>>, <<-1, 1, 0, 0>>, <<-2, 0, 1, 0>>, <<-1, 0, 0, 1>>,
     <<2, -1, -1, 1>>, <<1, -1, 1, 0>>, <<0, -2, 1, 0>>, <<3, -1, -1, -1>>,
     <<-2, 1, -1, 0>>, <<-2, -1, 0, 1>>, <<-1, -1, -1, 3>>}

SplitOffInequalities ==
    SeqsOfLen(ChainInequalities \cup OtherInequalities, 1)
        \cup SeqsOfLen(ChainInequalities \cup OtherInequalities, 2)
        \cup SeqsOfLen({ChainInequality(a, b, 0) : a \in 1..3, b \in 1..3}
                           \ {<<0, 0, 0, 0>>}, 3)
        \cup {<< <<-2, 1, -1, 0>>, <<-2, -1, 0, 1>>, <<-1, -1, -1, 3>> >>}
        \cup {<<>>}

SplitOffSimpleInequalitiesArgs ==
    {TransformArgs("SplitOffSimpleInequalities", ieqs, <<>>, 3, <<>>) :
        ieqs \in SplitOffInequalities}

InitSplitOffSimpleInequalities == InitTransform(SplitOffSimpleInequalitiesArgs)

CallSplitOffSimpleInequalities ==
    /\ tr_pc = "call"
    /\ tr_args.op = "SplitOffSimpleInequalities"
    /\ tr_out' = SplitOffSimpleInequalities(tr_args.inequalities, tr_args.equations,
                                            tr_args.d)
    /\ tr_pc' = "done"
    /\ UNCHANGED <<tr_args, cm_vars, gm_vars, gf_vars, br_vars>>

NextSplitOffSimpleInequalities == CallSplitOffSimpleInequalities

SpecSplitOffSimpleInequalities ==
    InitSplitOffSimpleInequalities /\ [][NextSplitOffSimpleInequalities]_vars

\* the matrices E: one or two equations in three variables
PrepareArgs ==
    {TransformArgs("prepare_equations_transformation", <<>>, E, 3, <<>>) :
        E \in EquationSystems \ {<<>>}}

InitPrepare == InitTransform(PrepareArgs)

CallPrepare ==
    /\ tr_pc = "call"
    /\ tr_args.op = "prepare_equations_transformation"
    /\ tr_out' = prepare_equations_transformation(tr_args.equations)
    /\ tr_pc' = "done"
    /\ UNCHANGED <<tr_args, cm_vars, gm_vars, gf_vars, br_vars>>

NextPrepare == CallPrepare

SpecPrepare == InitPrepare /\ [][NextPrepare]_vars

----------------------------------------------------------------------------
(* Specification SpecOmegaSetup: the setup of _generating_function_via_Omega_ *)

\* inequalities in three variables, among them some without the coordinate 1
\* or without the coordinates 1 and 2
OmegaInequalities ==
    {<<0, 1, 0, 0>>, <<2, -1, 0, 0>>, <<1, 0, -1, 0>>, <<-1, 0, 0, 1>>,
     <<0, -1, 1, 0>>, <<2, -1, -1, 1>>, <<3, -2, 0, -1>>, <<0, 0, 0, 0>>}

\* the tuples T_equations.indices: increasing coordinates
SkipIndices == {<<>>, <<0>>, <<1>>, <<2>>, <<0, 1>>, <<0, 2>>, <<1, 2>>, <<0, 1, 2>>}

OmegaSetupArgs ==
    [op : {"_generating_function_via_Omega_"},
     inequalities : SeqsUpTo(OmegaInequalities, 2),
     equations : {<<>>}, d : {3}, mod : {<<>>},
     skip_indices : SkipIndices]

InitOmegaSetup == InitTransform(OmegaSetupArgs)

CallOmegaSetup ==
    /\ tr_pc = "call"
    /\ tr_args.op = "_generating_function_via_Omega_"
    /\ tr_out' = Omega_setup(tr_args.inequalities, tr_args.d, tr_args.skip_indices)
    /\ tr_pc' = "done"
    /\ UNCHANGED <<tr_args, cm_vars, gm_vars, gf_vars, br_vars>>

NextOmegaSetup == CallOmegaSetup

SpecOmegaSetup == InitOmegaSetup /\ [][NextOmegaSetup]_vars

----------------------------------------------------------------------------
(* Polyhedra.  The class Polyhedron is not part of the sources at hand: a  *)
(* polyhedron is the record of the answers of its methods base_ring,       *)
(* ambient_dim, is_empty and Hrepresentation, and of whether intersecting  *)
(* it with the nonnegative orthant leaves it unchanged.                    *)

Ph(ring, d, in_orthant, polytope, ieqs, eqns) ==
    [base_ring |-> ring, ambient_dim |-> d, empty |-> FALSE,
     in_orthant |-> in_orthant, polytope |-> polytope,
     inequalities |-> ieqs, equations |-> eqns]

\* the empty polyhedron: its H-representation is the equation -1 == 0
EmptyPh(ring, d) ==
    [base_ring |-> ring, ambient_dim |-> d, empty |-> TRUE,
     in_orthant |-> TRUE, polytope |-> TRUE,
     inequalities |-> <<>>, equations |-> << <<-1>> \o zero_vector(d) >>]

Catalogue(name) ==
    \* ambient dimension 0: the point.  Its H-representation has no entry or
    \* the trivial inequality 1 >= 0, and the orthant, which is built from an
    \* empty list of inequalities, contains it or not: the library decides.
    CASE name = "point0"   -> Ph("ZZ", 0, TRUE, TRUE, <<>>, <<>>)
      [] name = "point0t"  -> Ph("ZZ", 0, TRUE, TRUE, << <<1>> >>, <<>>)
      [] name = "point0out" -> Ph("ZZ", 0, FALSE, TRUE, <<>>, <<>>)
    \* ambient dimension 1
      [] name = "seg15"    -> Ph("ZZ", 1, TRUE, TRUE, << <<-1, 1>>, <<5, -1>> >>, <<>>)
      [] name = "point1"   -> Ph("ZZ", 1, TRUE, TRUE, <<>>, << <<-1, 1>> >>)
      [] name = "half1"    -> Ph("QQ", 1, TRUE, TRUE, <<>>, << <<-1, 2>> >>)
      [] name = "ray1"     -> Ph("ZZ", 1, TRUE, FALSE, << <<0, 1>> >>, <<>>)
      [] name = "neg1"     -> Ph("ZZ", 1, FALSE, TRUE, << <<1, 1>>, <<1, -1>> >>, <<>>)
      [] name = "empty1"   -> EmptyPh("ZZ", 1)
      [] name = "rdf1"     -> Ph("RDF", 1, TRUE, TRUE, << <<-1, 1>>, <<5, -1>> >>, <<>>)
      [] name = "rdfneg1"  -> Ph("RDF", 1, FALSE, TRUE, << <<1, 1>>, <<1, -1>> >>, <<>>)
      [] name = "rdfempty1" -> EmptyPh("RDF", 1)
    \* ambient dimension 2
      [] name = "tri"      -> Ph("ZZ", 2, TRUE, TRUE,
                        << <<0, 1, 0>>, <<0, -1, 1>>, <<2, 0, -1>> >>, <<>>)
      [] name = "square"   -> Ph("ZZ", 2, TRUE, TRUE,
                        << <<0, 1, 0>>, <<0, 0, 1>>, <<2, -1, 0>>, <<2, 0, -1>> >>, <<>>)
      [] name = "sum2"     -> Ph("ZZ", 2, TRUE, TRUE,
                        << <<0, 1, 0>>, <<2, -1, 0>> >>, << <<-2, 1, 1>> >>)
      [] name = "double"   -> Ph("ZZ", 2, TRUE, TRUE,
                        << <<0, 1, 0>>, <<2, -1, 0>> >>, << <<0, 1, -2>> >>)
      [] name = "halfstrip" -> Ph("QQ", 2, TRUE, TRUE,
                        << <<0, 0, 1>>, <<1, 0, -1>> >>, << <<-1, 2, 0>> >>)
      [] name = "neg2"     -> Ph("ZZ", 2, FALSE, TRUE,
                        << <<1, 1, 0>>, <<1, -1, 0>>, <<0, 0, 1>>, <<1, 0, -1>> >>, <<>>)
      [] name = "empty2"   -> EmptyPh("QQ", 2)
      [] name = "rdf2"     -> Ph("RDF", 2, TRUE, TRUE,
                        << <<0, 1, 0>>, <<0, -1, 1>>, <<2, 0, -1>> >>, <<>>)
      [] name = "rdfneg2"  -> Ph("RDF", 2, FALSE, FALSE, << <<1, 1, 0>>, <<0, 0, 1>> >>, <<>>)
    \* ambient dimension 3
      [] name = "cone"     -> Ph("ZZ", 3, TRUE, FALSE,
                        << <<0, 1, 0, 0>>, <<0, -1, 1, 0>> >>, << <<0, -1, -1, 2>> >>)
      [] name = "conecut"  -> Ph("ZZ", 3, TRUE, TRUE,
                        << <<0, 1, 0, 0>>, <<0, -1, 1, 0>>, <<2, 0, -1, 0>> >>,
                        << <<0, -1, -1, 2>> >>)
      [] name = "sixth"    -> Ph("ZZ", 3, TRUE, TRUE,
                        << <<0, 1, 0, 0>>, <<6, -1, 0, 0>> >>,
                        << <<0, 1, -2, 0>>, <<0, 1, 0, -3>> >>)
    \* one chain inequality in three variables: x0 <= x1, x2 <= x0, x0 <= x2
      [] name = "chain01"  -> Ph("ZZ", 3, TRUE, FALSE,
                        << <<0, 0, 0, 1>>, <<0, 1, 0, 0>>, <<0, -1, 1, 0>> >>, <<>>)
      [] name = "chain20"  -> Ph("ZZ", 3, TRUE, FALSE,
                        << <<0, 0, 0, 1>>, <<0, 0, 1, 0>>, <<0, 1, 0, -1>> >>, <<>>)
      [] name = "chain02"  -> Ph("ZZ", 3, TRUE, FALSE,
                        << <<0, -1, 0, 1>>, <<0, 1, 0, 0>>, <<0, 0, 1, 0>> >>, <<>>)

PolyhedronNames ==
    {"point0", "point0t", "point0out", "seg15", "point1", "half1",
     "ray1", "neg1", "empty1", "rdf1", "rdfneg1", "rdfempty1",
     "tri", "square", "sum2", "double", "halfstrip", "neg2",
     "empty2", "rdf2", "rdfneg2", "cone", "conecut", "sixth",
     "chain01", "chain20", "chain02"}

\* polyhedron & split_polyhedron for the part-th polyhedron of split=True
\* (the permutations in the order of Permutations(d))
Pieces(name) ==
    CASE name = "tri"      -> << Catalogue("tri"), EmptyPh("ZZ", 2) >>
      [] name = "square"   -> << Catalogue("tri"),
                        Ph("ZZ", 2, TRUE, TRUE,
                           << <<0, 0, 1>>, <<2, -1, 0>>, <<-1, 1, -1>> >>, <<>>) >>
      [] name = "sum2"     -> << Ph("ZZ", 2, TRUE, TRUE,
                           << <<0, 1, 0>>, <<1, -1, 0>> >>, << <<-2, 1, 1>> >>),
                        Ph("QQ", 2, TRUE, TRUE,
                           << <<-3, 2, 0>>, <<2, -1, 0>> >>, << <<-2, 1, 1>> >>) >>
      [] name = "double"   -> << Ph("ZZ", 2, TRUE, TRUE, <<>>, << <<0, 0, 1>>, <<0, 1, 0>> >>),
                        Ph("ZZ", 2, TRUE, TRUE, <<>>, << <<-1, 0, 1>>, <<-2, 1, 0>> >>) >>
      [] name = "halfstrip" -> << Ph("QQ", 2, TRUE, TRUE,
                           << <<-1, 0, 2>>, <<1, 0, -1>> >>, << <<-1, 2, 0>> >>),
                        EmptyPh("QQ", 2) >>
      [] name = "cone"     -> << Ph("ZZ", 3, TRUE, FALSE,
                           << <<0, 1, 0, 0>> >>, << <<0, -1, 0, 1>>, <<0, -1, 1, 0>> >>),
                        Ph("ZZ", 3, TRUE, FALSE,
                           << <<0, 1, 0, 0>>, <<-2, -1, 1, 0>> >>, << <<0, -1, -1, 2>> >>),
                        EmptyPh("ZZ", 3), EmptyPh("ZZ", 3),
                        EmptyPh("ZZ", 3), EmptyPh("ZZ", 3) >>
      [] name = "conecut"  -> << Ph("ZZ", 3, TRUE, TRUE,
                           << <<0, 1, 0, 0>>, <<2, -1, 0, 0>> >>,
                           << <<0, -1, 0, 1>>, <<0, -1, 1, 0>> >>),
                        Ph("ZZ", 3, TRUE, TRUE,
                           << <<0, 1, 0, 0>>, <<-2, -1, 1, 0>>, <<2, 0, -1, 0>> >>,
                           << <<0, -1, -1, 2>> >>),
                        EmptyPh("ZZ", 3), EmptyPh("ZZ", 3),
                        EmptyPh("ZZ", 3), EmptyPh("ZZ", 3) >>
      [] name = "sixth"    -> << Ph("ZZ", 3, TRUE, TRUE, <<>>,
                           << <<0, 0, 0, 1>>, <<0, 0, 1, 0>>, <<0, 1, 0, 0>> >>),
                        EmptyPh("ZZ", 3), EmptyPh("ZZ", 3),
                        EmptyPh("ZZ", 3), EmptyPh("ZZ", 3),
                        Ph("ZZ", 3, TRUE, TRUE, <<>>,
                           << <<-2, 0, 0, 1>>, <<-3, 0, 1, 0>>, <<-6, 1, 0, 0>> >>) >>

\* the polyhedra that are split by the permutations
SplitNames == {"tri", "square", "sum2", "double", "halfstrip", "cone", "conecut", "sixth"}

\* the integer points of a polyhedron with coordinates up to MaxCoord
Points(P) ==
    IF P.empty THEN {}
    ELSE {v \in BoxVectors(P.ambient_dim) :
              /\ \A k \in DOMAIN P.inequalities : evaluate(P.inequalities[k], v) >= 0
              /\ \A k \in DOMAIN P.equations : evaluate(P.equations[k], v) = 0}

----------------------------------------------------------------------------
(* Python values of the arguments split and result_as_tuple *)

PyNone == [type |-> "NoneType", value |-> FALSE, items |-> <<>>]
PyBool(b) == [type |-> "bool", value |-> b, items |-> <<>>]
PyList(items) == [type |-> "list", value |-> FALSE, items |-> items]

\* the truth value of "if x:"
truth(x) ==
    CASE x.type = "NoneType" -> FALSE
      [] x.type = "bool" -> x.value
      [] x.type = "list" -> x.items # <<>>

is_False(x) == x.type = "bool" /\ ~x.value
is_True(x) == x.type = "bool" /\ x.value

\* Permutations(d): the permutations of S in lexicographic order
RECURSIVE Permutations_(_)
Permutations_(S) ==
    IF S = {} THEN << <<>> >>
    ELSE LET elems == SortedSeq(S)
         IN  Flatten([k \in DOMAIN elems |->
                 LET rest == Permutations_(S \ {elems[k]})
                 IN  [j \in DOMAIN rest |-> <<elems[k]>> \o rest[j]]])

\* the inequalities of the permutation pi, none of them strict
split_ieqs_weak(pi, d) ==
    [k \in 1..(Len(pi) - 1) |->
        [i \in 1..(d + 1) |->
            IF i - 1 = pi[k + 1] THEN 1 ELSE IF i - 1 = pi[k] THEN -1 ELSE 0]]

\* the inequalities of the split polyhedron of the permutation pi
split_ieqs(pi, d) ==
    [k \in 1..(Len(pi) - 1) |->
        LET a == pi[k]
            b == pi[k + 1]
        IN  [i \in 1..(d + 1) |->
                IF i - 1 = b THEN 1
                ELSE IF i - 1 = a \/ (i - 1 = 0 /\ a > b) THEN -1
                ELSE 0]]

\* split = iter(...): for split=True the polyhedra of the permutations, else
\* the polyhedra of the list
split_iter(split, d) ==
    IF is_True(split)
    THEN LET perms == Permutations_(1..d)
         IN  [k \in DOMAIN perms |->
                 [part |-> k, name |-> "", inequalities |-> split_ieqs(perms[k], d)]]
    ELSE [k \in DOMAIN split.items |->
             [part |-> 0, name |-> split.items[k], inequalities |-> <<>>]]

\* polyhedron & split_polyhedron
intersection(name, split_polyhedron) ==
    IF split_polyhedron.part > 0 /\ split_polyhedron.inequalities = <<>>
    THEN \* no inequality: the split polyhedron is the whole space
         Catalogue(name)
    ELSE IF split_polyhedron.part > 0 THEN Pieces(name)[split_polyhedron.part]
    ELSE IF split_polyhedron.name = name THEN Catalogue(name)
    ELSE \* the square and the triangle in it
         Catalogue("tri")

----------------------------------------------------------------------------
(* Specification Spec: one call of generating_function_of_integral_points *)

\* what the call returned or raised
Return(as_tuple, value) ==
    [kind |-> "return", exception |-> "", as_tuple |-> as_tuple, value |-> value]
Raise(exception) ==
    [kind |-> "raise", exception |-> exception, as_tuple |-> FALSE, value |-> <<>>]
Running == [kind |-> "none", exception |-> "", as_tuple |-> FALSE, value |-> <<>>]

\* the lists of polyhedra that are passed as split for the polyhedron name
SplitLists(name) ==
    {<<>>, <<name>>, <<name, name>>} \cup (IF name = "square" THEN {<<"tri">>} ELSE {})

\* the polyhedra that are passed with split=False or a list only: their
\* intersections with the polyhedra of the permutations are not tabulated
ChainNames == {"chain01", "chain20", "chain02"}

SplitValues(name) ==
    {PyBool(FALSE)} \cup (IF name \in ChainNames THEN {} ELSE {PyBool(TRUE)})
        \cup {PyList(l) : l \in SplitLists(name)}

ResultAsTupleValues == {PyNone, PyBool(FALSE), PyBool(TRUE)}

\* range(n)
range(n) == [k \in 1..n |-> k - 1]

\* the keyword arguments that are handed down: no indices, or the indices of
\* the d coordinates, of one more or of one less
KwdsValues(d) ==
    [indices : {PyNone}, sort_factors : BOOLEAN]
        \cup [indices : {PyList(range(d)), PyList(range(d + 1))}
                            \cup (IF d >= 1 THEN {PyList(range(d - 1))} ELSE {}),
              sort_factors : {FALSE}]

gf_polyhedron == Catalogue(gf_args.polyhedron)

Init ==
    /\ \E name \in PolyhedronNames :
           gf_args \in [polyhedron : {name}, split : SplitValues(name),
                        result_as_tuple : ResultAsTupleValues,
                        kwds : KwdsValues(Catalogue(name).ambient_dim)]
    /\ gf_rat = gf_args.result_as_tuple
    /\ gf_todo = <<>>
    /\ gf_result = <<>>
    /\ gf_out = Running
    /\ gf_pc = "result_as_tuple"
    /\ cm_idle /\ gm_idle /\ tr_idle /\ br_idle

\* if result_as_tuple is None: result_as_tuple = split
default_result_as_tuple(result_as_tuple, split) ==
    IF result_as_tuple.type = "NoneType" THEN split ELSE result_as_tuple

DefaultResultAsTuple ==
    /\ gf_pc = "result_as_tuple"
    /\ gf_rat' = default_result_as_tuple(gf_rat, gf_args.split)
    /\ gf_pc' = "is_empty"
    /\ UNCHANGED <<gf_args, gf_todo, gf_result, gf_out, cm_vars, gm_vars, tr_vars, br_vars>>

\* the zero factorization, never in a tuple
bare_zero(result_as_tuple) == Return(FALSE, ZeroFactorization)

\* what the call returns for the empty polyhedron
empty_result(result_as_tuple) ==
    IF truth(result_as_tuple) THEN Return(TRUE, <<ZeroFactorization>>)
    ELSE Return(FALSE, ZeroFactorization)

CheckEmpty ==
    /\ gf_pc = "is_empty"
    /\ IF gf_polyhedron.empty
       THEN gf_out' = empty_result(gf_rat) /\ gf_pc' = "done"
       ELSE gf_out' = gf_out /\ gf_pc' = "base_ring"
    /\ UNCHANGED <<gf_args, gf_rat, gf_todo, gf_result, cm_vars, gm_vars, tr_vars, br_vars>>

\* every base ring is taken
any_base_ring(ring) == FALSE

\* polyhedron.base_ring() not in (ZZ, QQ)
base_ring_unsupported(ring) == ring \notin {"ZZ", "QQ"}

CheckBaseRing ==
    /\ gf_pc = "base_ring"
    /\ IF base_ring_unsupported(gf_polyhedron.base_ring)
       THEN gf_out' = Raise("TypeError") /\ gf_pc' = "done"
       ELSE gf_out' = gf_out /\ gf_pc' = "orthant"
    /\ UNCHANGED <<gf_args, gf_rat, gf_todo, gf_result, cm_vars, gm_vars, tr_vars, br_vars>>

\* the orthant is never left
never_outside(P) == FALSE

\* polyhedron & nonnegative_orthant != polyhedron
outside_orthant(P) == ~P.in_orthant

CheckOrthant ==
    /\ gf_pc = "orthant"
    /\ IF outside_orthant(gf_polyhedron)
       THEN gf_out' = Raise("NotImplementedError") /\ gf_pc' = "done"
       ELSE gf_out' = gf_out /\ gf_pc' = "split"
    /\ UNCHANGED <<gf_args, gf_rat, gf_todo, gf_result, cm_vars, gm_vars, tr_vars, br_vars>>

\* the first branch without the check of the length
unpack_first(result, result_as_tuple) ==
    IF truth(result_as_tuple) THEN Return(TRUE, result)
    ELSE IF result = <<>> THEN Raise("ValueError")
    ELSE Return(FALSE, result[1])

\* the branch "if result_as_tuple: ... else: ..." of split=False
unpack(result, result_as_tuple) ==
    IF truth(result_as_tuple) THEN Return(TRUE, result)
    ELSE IF Len(result) # 1 THEN Raise("ValueError")
    ELSE Return(FALSE, result[1])

SplitIsFalse ==
    /\ gf_pc = "split"
    /\ is_False(gf_args.split)
    /\ \E result \in {_generating_function_of_integral_points_(gf_polyhedron,
                                                                 gf_args.kwds)} :
           gf_out' = IF result.raised # "" THEN Raise(result.raised)
                     ELSE unpack(result.value, gf_rat)
    /\ gf_pc' = "done"
    /\ UNCHANGED <<gf_args, gf_rat, gf_todo, gf_result, cm_vars, gm_vars, tr_vars, br_vars>>

\* if d <= 0
nothing_to_split_0(d) == d <= 0

\* if d <= 1
nothing_to_split(d) == d <= 1

CheckDimension ==
    /\ gf_pc = "split"
    /\ ~is_False(gf_args.split)
    /\ IF nothing_to_split(gf_polyhedron.ambient_dim)
       THEN gf_out' = Raise("ValueError") /\ gf_pc' = "done"
       ELSE gf_out' = gf_out /\ gf_pc' = "parts"
    /\ UNCHANGED <<gf_args, gf_rat, gf_todo, gf_result, cm_vars, gm_vars, tr_vars, br_vars>>

PrepareSplit ==
    /\ gf_pc = "parts"
    /\ gf_todo' = split_iter(gf_args.split, gf_polyhedron.ambient_dim)
    /\ gf_result' = <<>>
    /\ gf_pc' = "loop"
    /\ UNCHANGED <<gf_args, gf_rat, gf_out, cm_vars, gm_vars, tr_vars, br_vars>>

\* one pass of "for part, (split_polyhedron, pi_log) in enumerate(split)"
SplitPart ==
    /\ gf_pc = "loop"
    /\ gf_todo # <<>>
    /\ \E part \in {_generating_function_of_integral_points_(
                       intersection(gf_args.polyhedron, Head(gf_todo)), gf_args.kwds)} :
           IF part.raised # ""
           THEN /\ gf_out' = Raise(part.raised)
                /\ gf_pc' = "done"
                /\ UNCHANGED <<gf_todo, gf_result>>
           ELSE /\ gf_result' = Append(gf_result, part.value)
                /\ gf_todo' = Tail(gf_todo)
                /\ UNCHANGED <<gf_out, gf_pc>>
    /\ UNCHANGED <<gf_args, gf_rat, cm_vars, gm_vars, tr_vars, br_vars>>

\* the tuple of the first piece only
first_tuple(result) == IF result = <<>> THEN <<>> ELSE result[1]

\* sum(result, ())
sum_tuples(result) == Flatten(result)

\* the sum of the tuples is returned whatever result_as_tuple is
return_sum(result, result_as_tuple) == Return(TRUE, sum_tuples(result))

\* what follows the loop
finish_split(result, result_as_tuple) ==
    IF ~truth(result_as_tuple) THEN Raise("ValueError")
    ELSE Return(TRUE, sum_tuples(result))

SplitFinish ==
    /\ gf_pc = "loop"
    /\ gf_todo = <<>>
    /\ gf_out' = finish_split(gf_result, gf_rat)
    /\ gf_pc' = "done"
    /\ UNCHANGED <<gf_args, gf_rat, gf_todo, gf_result, cm_vars, gm_vars, tr_vars, br_vars>>

Next ==
    \/ DefaultResultAsTuple
    \/ CheckEmpty
    \/ CheckBaseRing
    \/ CheckOrthant
    \/ SplitIsFalse
    \/ CheckDimension
    \/ PrepareSplit
    \/ SplitPart
    \/ SplitFinish

Spec == Init /\ [][Next]_vars

----------------------------------------------------------------------------
(* Specification SpecBranch: one call of                                   *)
(* __generating_function_of_integral_points__, statement by statement      *)

\* the branches of the polyhedra of the catalogue that reach the single-shot
\* reduction with an inequality
CatalogueBranches ==
    UNION {LET P == Catalogue(name)
               M == generate_mods(P.equations)
           IN  IF P.empty \/ P.inequalities = <<>> \/ M.raised # "" THEN {}
               ELSE [indices : {range(P.ambient_dim)},
                     inequalities : {P.inequalities},
                     equations : {P.equations},
                     mod : SeqRange(M.mods),
                     sort_factors : BOOLEAN] :
           name \in PolyhedronNames}

\* the calls of the doctests with the indices (0, 2) and srange(3), the first
\* of them also without its residue class, and a call with a zero equation
DirectBranches ==
    [indices : {<<0, 2>>}, inequalities : {<< <<0, 1, 0>> >>},
     equations : {<< <<1, -1, 2>> >>}, mod : {(0 :> <<2, 1>>), <<>>},
     sort_factors : BOOLEAN]
        \cup [indices : {range(3)},
              inequalities : {<< <<0, 1, 0, 0>>, <<0, 0, 1, 0>> >>},
              equations : {<< <<1, -1, 0, 2>> >>}, mod : {(0 :> <<2, 1>>)},
              sort_factors : BOOLEAN]
        \cup [indices : {range(2)}, inequalities : {<< <<0, 1, 0>> >>},
              equations : {<< <<0, 0, 0>> >>}, mod : {<<>>},
              sort_factors : BOOLEAN]

BranchArgs == CatalogueBranches \cup DirectBranches

InitBranch ==
    /\ br_args \in BranchArgs
    /\ br_st = [inequalities |-> br_args.inequalities,
                equations |-> br_args.equations,
                T_mod |-> Idle, T_equations |-> Idle, T_inequalities |-> Idle,
                series |-> <<>>, pair |-> Idle,
                stages |-> <<>>, applied |-> <<>>, out |-> Idle]
    /\ br_pc = "T_mod"
    /\ cm_idle /\ gm_idle /\ gf_idle /\ tr_idle

\* len(indices): the number of generators of B
br_d == Len(br_args.indices)

\* the call ends with the exception
br_raise(exception) == [br_st EXCEPT !.out = [raised |-> exception]]

\* T_mod = TransformMod(inequalities, equations, B, mod)
RunTransformMod ==
    /\ br_pc = "T_mod"
    /\ \E T \in {TransformMod(br_st.inequalities, br_st.equations, br_d, br_args.mod)} :
           br_st' = [br_st EXCEPT !.T_mod = T,
                                  !.inequalities = T.inequalities,
                                  !.equations = T.equations,
                                  !.stages = Append(@, "TransformMod")]
    /\ br_pc' = "T_equations"
    /\ UNCHANGED <<br_args, cm_vars, gm_vars, gf_vars, tr_vars>>

\* T_equations = EliminateByEquations(inequalities, equations, B)
RunEliminateByEquations ==
    /\ br_pc = "T_equations"
    /\ \E T \in {EliminateByEquations(br_st.inequalities, br_st.equations, br_d)} :
           IF T.raised # ""
           THEN /\ br_st' = [br_raise(T.raised) EXCEPT
                                !.stages = Append(@, "EliminateByEquations")]
                /\ br_pc' = "done"
           ELSE /\ br_st' = [br_st EXCEPT !.T_equations = T,
                                          !.inequalities = T.inequalities,
                                          !.equations = T.equations,
                                          !.stages = Append(@, "EliminateByEquations")]
                /\ br_pc' = "T_inequalities"
    /\ UNCHANGED <<br_args, cm_vars, gm_vars, gf_vars, tr_vars>>

\* T_inequalities = SplitOffSimpleInequalities(inequalities, equations, B)
\* and "assert not equations"
RunSplitOffSimpleInequalities ==
    /\ br_pc = "T_inequalities"
    /\ \E T \in {SplitOffSimpleInequalities(br_st.inequalities, br_st.equations, br_d)} :
           IF T.raised # ""
           THEN /\ br_st' = [br_raise(T.raised) EXCEPT
                                !.stages = Append(@, "SplitOffSimpleInequalities")]
                /\ br_pc' = "done"
           ELSE IF T.equations # <<>>
           THEN /\ br_st' = [br_raise("AssertionError") EXCEPT
                                !.T_inequalities = T,
                                !.inequalities = T.inequalities,
                                !.equations = T.equations,
                                !.stages = Append(@, "SplitOffSimpleInequalities")]
                /\ br_pc' = "done"
           ELSE /\ br_st' = [br_st EXCEPT !.T_inequalities = T,
                                          !.inequalities = T.inequalities,
                                          !.equations = T.equations,
                                          !.stages = Append(@, "SplitOffSimpleInequalities")]
                /\ br_pc' = "Omega"
    /\ UNCHANGED <<br_args, cm_vars, gm_vars, gf_vars, tr_vars>>

\* numerator, terms = _generating_function_via_Omega_(
\*     inequalities, B, skip_indices=T_equations.indices)
RunOmega ==
    /\ br_pc = "Omega"
    /\ \E O \in {_generating_function_via_Omega_(br_st.inequalities, br_d,
                                                 br_st.T_equations.indices)} :
           IF O.raised # ""
           THEN /\ br_st' = [br_raise(O.raised) EXCEPT !.stages = Append(@, "Omega")]
                /\ br_pc' = "done"
           ELSE /\ br_st' = [br_st EXCEPT !.series = O.series,
                                          !.pair = O.pair,
                                          !.stages = Append(@, "Omega")]
                /\ br_pc' = "apply_rules"
    /\ UNCHANGED <<br_args, cm_vars, gm_vars, gf_vars, tr_vars>>

\* the next of the three statements
\* numerator, terms = T.apply_rules(numerator, terms)
ApplyRules ==
    /\ br_pc = "apply_rules"
    /\ Len(br_st.applied) < Len(rules_order)
    /\ \E name \in {rules_order[Len(br_st.applied) + 1]} :
           \E T \in {transform_of(name, br_st.T_mod, br_st.T_equations,
                                  br_st.T_inequalities)} :
               br_st' = [br_st EXCEPT !.series = apply_rules(T, @),
                                      !.pair = apply_rules_pair(T, @),
                                      !.applied = Append(@, name)]
    /\ UNCHANGED <<br_args, br_pc, cm_vars, gm_vars, gf_vars, tr_vars>>

\* the sorting of the terms and the return of the factorization
SortAndReturn ==
    /\ br_pc = "apply_rules"
    /\ Len(br_st.applied) = Len(rules_order)
    /\ br_st' = [br_st EXCEPT
                    !.out = [raised |-> "",
                             value |-> Factorization(
                                 br_st.series,
                                 sort_terms(br_st.pair, br_args.sort_factors))]]
    /\ br_pc' = "done"
    /\ UNCHANGED <<br_args, cm_vars, gm_vars, gf_vars, tr_vars>>

NextBranch ==
    \/ RunTransformMod
    \/ RunEliminateByEquations
    \/ RunSplitOffSimpleInequalities
    \/ RunOmega
    \/ ApplyRules
    \/ SortAndReturn

SpecBranch == InitBranch /\ [][NextBranch]_vars

\* the tabulated intersections of the polyhedron of the call have the integer
\* points that the inequalities of the permutations cut out of it
PiecesConsistent ==
    gf_args.polyhedron \in SplitNames =>
        LET its == split_iter(PyBool(TRUE), gf_polyhedron.ambient_dim)
            pieces == Pieces(gf_args.polyhedron)
        IN  /\ Len(its) = Len(pieces)
            /\ \A k \in DOMAIN its :
                   Points(pieces[k]) =
                       {v \in Points(gf_polyhedron) :
                            \A j \in DOMAIN its[k].inequalities :
                                evaluate(its[k].inequalities[j], v) >= 0}

----------------------------------------------------------------------------
(* Claims about compositions_mod *)

\* the arguments as vectors over Zmod(m), as compositions_mod coerces them
cm_u == IF cm_args.multidimensional THEN cm_args.u
        ELSE [i \in DOMAIN cm_args.u |-> <<cm_args.u[i]>>]
cm_r == IF cm_args.multidimensional THEN cm_args.r ELSE <<cm_args.r>>

\* sum_i x_i*u_i = r modulo m, in every component
SolvesCongruence(x, u, r, m) ==
    \A c \in DOMAIN r :
        (SeqSum([i \in DOMAIN u |-> x[i] * u[i][c]]) - r[c]) % m = 0

\* x is componentwise congruent to the emitted tuple a, each component modulo
\* the modulus its residue carries
CongruentTo(x, a) ==
    \A i \in DOMAIN a : (x[i] - a[i].res) % a[i].modulus = 0

Residues(a) == [i \in DOMAIN a |-> a[i].res]

\* a is before b in the lexicographic order of the residues
LexLess(a, b) ==
    \E i \in DOMAIN a :
        /\ i \in DOMAIN b
        /\ a[i].res < b[i].res
        /\ \A j \in 1..(i-1) : a[j].res = b[j].res

\* C3: compositions_mod(u, m, r) represents exactly the solution set of the
\* congruence, in scalar and in multidimensional mode: every emitted tuple
\* solves sum_i a_i*u_i = r (mod m), and an integer vector x solves it iff x is
\* componentwise congruent to exactly one emitted tuple (each component taken
\* modulo the modulus of the emitted residue).  Everything is periodic with
\* period m, so x ranges over 0..m-1.
C3_ExactSolutionSet ==
    cm_pc = "done" =>
        /\ \A k \in DOMAIN cm_out :
               SolvesCongruence(Residues(cm_out[k]), cm_u, cm_r, cm_args.m)
        /\ \A x \in SeqsOfLen(0..(cm_args.m - 1), Len(cm_u)) :
               SolvesCongruence(x, cm_u, cm_r, cm_args.m)
                   <=> Cardinality({k \in DOMAIN cm_out : CongruentTo(x, cm_out[k])}) = 1

\* C4: compositions_mod emits its tuples in strictly increasing lexicographic
\* order of their residues, hence no tuple twice, and every emitted tuple has
\* as many entries as u.
C4_IncreasingOrder ==
    cm_pc = "done" =>
        /\ \A k \in DOMAIN cm_out : Len(cm_out[k]) = Len(cm_args.u)
        /\ \A k \in 1..(Len(cm_out) - 1) : LexLess(cm_out[k], cm_out[k+1])
        /\ \A k, l \in DOMAIN cm_out : k # l => cm_out[k] # cm_out[l]

\* a call with two terms that emitted several tuples, whose second residues
\* are not in increasing order although the tuples are
C4_Witness ==
    /\ cm_pc = "done"
    /\ Len(cm_args.u) = 2
    /\ Len(cm_out) >= 3
    /\ \E k \in 1..(Len(cm_out) - 1) :
           /\ cm_out[k][1].res < cm_out[k+1][1].res
           /\ cm_out[k][2].res > cm_out[k+1][2].res

\* the part of C3 that the scalar mode fulfils
ScalarExactSolutionSet ==
    ~cm_args.multidimensional => C3_ExactSolutionSet

----------------------------------------------------------------------------
(* Claims about TransformMod.generate_mods *)

\* the pivot coordinates and the common period of the equations of the call
gm_prep == prepare_equations_transformation(gm_eqs)
gm_dim == ncols(gm_eqs) - 1
gm_free == {i \in 0..(gm_dim - 1) : (i + 1) \notin SeqRange(gm_prep.indices)}

\* With the non-pivot coordinates x (a function on gm_free), every pivot
\* coordinate, as the equations determine it, is an integer: row k of TE says
\* x_pivot(k) = -(TE[k][0] + sum over the non-pivot i of TE[k][i+1]*x_i).
PivotsIntegral(x) ==
    \A k \in 1..nrows(gm_eqs) :
        (gm_prep.TE.num[k][1]
           + SeqSum([c \in 1..gm_dim |->
                 IF (c - 1) \in gm_free THEN gm_prep.TE.num[k][c + 1] * x[c - 1] ELSE 0]))
          % gm_prep.TE.den = 0

\* x lies in the configuration mod: x_i = r modulo m for every entry i: (m, r)
LiesIn(x, mod) == \A i \in DOMAIN mod : (x[i] - mod[i][2]) % mod[i][1] = 0

\* C2: the residue-class configurations returned by generate_mods are pairwise
\* disjoint and jointly exhaustive: an integer assignment x of the non-pivot
\* coordinates makes every pivot coordinate an integer iff x lies in exactly
\* one returned configuration.  Both sides are periodic with the determinant
\* of the pivot columns as period, so x ranges over 0..den-1.
C2_ModsPartition ==
    (gm_pc = "done" /\ gm_out.raised = "") =>
        \A x \in [gm_free -> 0..(gm_prep.TE.den - 1)] :
            PivotsIntegral(x)
                <=> Cardinality({k \in DOMAIN gm_out.mods : LiesIn(x, gm_out.mods[k])}) = 1

\* the configurations are exact when there is a single equation
SingleEquationModsPartition ==
    nrows(gm_eqs) = 1 => C2_ModsPartition

----------------------------------------------------------------------------
(* Claims about generating_function_of_integral_points *)

gf_done == gf_pc = "done"

\* the call has returned value, as a tuple of factorizations or as one
Returned(as_tuple, value) ==
    gf_out.kind = "return" /\ gf_out.as_tuple = as_tuple /\ gf_out.value = value

\* the call has raised exception
Raised(exception) == gf_out.kind = "raise" /\ gf_out.exception = exception

\* the polyhedron passes the checks of emptiness, base ring and orthant
Admissible(P) == ~P.empty /\ P.base_ring \in {"ZZ", "QQ"} /\ P.in_orthant

\* the call is generating_function_of_integral_points(P)
DefaultCall ==
    /\ is_False(gf_args.split)
    /\ gf_args.result_as_tuple.type = "NoneType"
    /\ gf_args.kwds.indices.type = "NoneType"

\* splitting is requested: split is True or a list of polyhedra
SplitRequested == ~is_False(gf_args.split)

\* whether the caller gets a tuple: result_as_tuple, or split if it is None
TupleRequested ==
    IF gf_args.result_as_tuple.type = "NoneType" THEN truth(gf_args.split)
    ELSE truth(gf_args.result_as_tuple)

\* the power series of a factorization
expansion(F) == IF F.unit = 0 THEN <<>> ELSE F.series

\* the series has coefficient 1 at the integer points of P and 0 elsewhere:
\* its monomials are the integer points of P, each listed once
CountsPoints(series, P) ==
    /\ SeqRange(series) = Points(P)
    /\ Cardinality(SeqRange(series)) = Len(series)

\* C1: for every non-empty polytope P over ZZ or QQ in the nonnegative
\* orthant, generating_function_of_integral_points(P) returns a rational
\* function whose expansion has the coefficient 1 at y^v for every integer
\* point v of P and the coefficient 0 at every other exponent vector.
C1_CoefficientCounting ==
    (gf_done /\ DefaultCall /\ Admissible(gf_polyhedron) /\ gf_polyhedron.polytope) =>
        /\ gf_out.kind = "return"
        /\ ~gf_out.as_tuple
        /\ CountsPoints(expansion(gf_out.value), gf_polyhedron)

\* whenever generating_function_of_integral_points(P) returns for such a
\* polytope, the returned function counts the integer points of P
ReturnedFunctionCounts ==
    (/\ gf_done /\ DefaultCall /\ Admissible(gf_polyhedron) /\ gf_polyhedron.polytope
     /\ gf_out.kind = "return") =>
        CountsPoints(expansion(gf_out.value), gf_polyhedron)

\* C5 as stated: a polyhedron that is not contained in the nonnegative
\* orthant makes the call raise NotImplementedError, for every setting of
\* split and result_as_tuple.
C5_AsStated ==
    (gf_done /\ ~gf_polyhedron.in_orthant) => Raised("NotImplementedError")

\* C5: a polyhedron over ZZ or QQ that is not contained in the nonnegative
\* orthant makes the call raise NotImplementedError, for every setting of
\* split and result_as_tuple; over another base ring the TypeError of the
\* base ring comes first.
C5_NegativeCoordinatesRejected ==
    (gf_done /\ ~gf_polyhedron.in_orthant) =>
        IF gf_polyhedron.base_ring \in {"ZZ", "QQ"}
        THEN Raised("NotImplementedError") ELSE Raised("TypeError")

C5_Witness ==
    /\ gf_done
    /\ ~gf_polyhedron.in_orthant
    /\ gf_polyhedron.base_ring = "ZZ"
    /\ is_True(gf_args.split)
    /\ gf_args.result_as_tuple = PyBool(FALSE)
    /\ Raised("NotImplementedError")

\* C6 as stated: a polyhedron over a base ring other than ZZ and QQ makes
\* the call raise TypeError.
C6_AsStated ==
    (gf_done /\ gf_polyhedron.base_ring \notin {"ZZ", "QQ"}) => Raised("TypeError")

\* C6: a non-empty polyhedron over a base ring other than ZZ and QQ makes
\* the call raise TypeError, whether or not it lies in the nonnegative
\* orthant; an empty one gets the zero factorization.
C6_BaseRingRejected ==
    (gf_done /\ gf_polyhedron.base_ring \notin {"ZZ", "QQ"}) =>
        IF gf_polyhedron.empty
        THEN gf_out.kind = "return"
        ELSE Raised("TypeError")

C6_Witness ==
    /\ gf_done
    /\ gf_polyhedron.base_ring = "RDF"
    /\ ~gf_polyhedron.empty
    /\ ~gf_polyhedron.in_orthant
    /\ Raised("TypeError")

\* C7 as stated: for an empty polyhedron the call returns the zero
\* factorization regardless of split and result_as_tuple.
C7_AsStated ==
    (gf_done /\ gf_polyhedron.empty) => Returned(FALSE, ZeroFactorization)

\* C7: for an empty polyhedron the call returns the zero factorization
\* (unit 0, no factors) if no tuple is requested (result_as_tuple, or split
\* if result_as_tuple is None, is false or an empty list), and the tuple with
\* the zero factorization as its only entry if a tuple is requested.
C7_EmptyPolyhedron ==
    (gf_done /\ gf_polyhedron.empty) =>
        IF TupleRequested THEN Returned(TRUE, <<ZeroFactorization>>)
        ELSE Returned(FALSE, ZeroFactorization)

C7_Witness ==
    /\ gf_done
    /\ gf_polyhedron.empty
    /\ gf_args.result_as_tuple.type = "NoneType"
    /\ gf_args.split.type = "list"
    /\ Returned(TRUE, <<ZeroFactorization>>)

\* the branches of the single-shot reduction, one per residue-class
\* configuration in the order of generate_mods
BranchesInOrder(P) ==
    LET mods == generate_mods(P.equations).mods
        indices == default_indices(gf_args.kwds.indices, P.inequalities)
    IN  [k \in DOMAIN mods |->
            __generating_function_of_integral_points__(
                indices, P.inequalities, P.equations, mods[k],
                gf_args.kwds.sort_factors).value]

\* C8: with split=False, when the single-shot reduction has returned its
\* branches: if result_as_tuple is true the tuple of all branches is
\* returned, one per residue-class configuration in the order of
\* generate_mods; otherwise the single factorization is returned when there
\* is exactly one branch, and a ValueError is raised when there are several.
C8_UnpackSingleShot ==
    (/\ gf_done /\ is_False(gf_args.split) /\ Admissible(gf_polyhedron)
     /\ _generating_function_of_integral_points_(gf_polyhedron, gf_args.kwds).raised = "") =>
        LET result == BranchesInOrder(gf_polyhedron)
        IN  IF truth(gf_args.result_as_tuple)
            THEN Returned(TRUE, result)
            ELSE /\ Len(result) = 1 => Returned(FALSE, result[1])
                 /\ Len(result) > 1 => Raised("ValueError")

C8_Witness ==
    /\ gf_done
    /\ is_False(gf_args.split)
    /\ gf_args.result_as_tuple = PyBool(FALSE)
    /\ Admissible(gf_polyhedron)
    /\ Len(generate_mods(gf_polyhedron.equations).mods) = 2
    /\ Raised("ValueError")

\* with split=False and result_as_tuple true the two branches of a
\* polyhedron with two residue classes are returned
TwoBranchesReturned ==
    /\ gf_done
    /\ is_False(gf_args.split)
    /\ gf_out.kind = "return" /\ gf_out.as_tuple
    /\ Len(gf_out.value) = 2
    /\ gf_out.value[1] # gf_out.value[2]

\* C9 as stated: splitting requested on a polyhedron of ambient dimension 0
\* or 1 raises ValueError.
C9_AsStated ==
    (gf_done /\ SplitRequested /\ gf_polyhedron.ambient_dim <= 1) =>
        Raised("ValueError")

\* C9: splitting requested on a non-empty polyhedron over ZZ or QQ in the
\* nonnegative orthant of ambient dimension 0 or 1 raises ValueError; the
\* checks of emptiness, base ring and orthant come first.
C9_NothingToSplit ==
    (gf_done /\ SplitRequested /\ gf_polyhedron.ambient_dim <= 1) =>
        IF Admissible(gf_polyhedron) THEN Raised("ValueError")
        ELSE ~Raised("ValueError")

C9_Witness ==
    /\ gf_done
    /\ gf_args.split.type = "list" /\ gf_args.split.items # <<>>
    /\ gf_args.result_as_tuple = PyBool(TRUE)
    /\ gf_polyhedron.ambient_dim = 1
    /\ Admissible(gf_polyhedron)
    /\ Raised("ValueError")

\* the loop over the pieces has come to its end
AllPiecesDone == gf_done /\ SplitRequested /\ gf_todo = <<>> /\ gf_result # <<>>

\* C10 as stated: with split=True or a list of polyhedra, if some piece
\* yields several branches the call fails.
C10_AsStated ==
    (AllPiecesDone /\ \E k \in DOMAIN gf_result : Len(gf_result[k]) > 1) =>
        gf_out.kind = "raise"

\* C10: with split=True or a list of polyhedra, the branches of the pieces,
\* however many a piece yields, are concatenated in the order of the pieces
\* and returned as a tuple if a tuple is requested (result_as_tuple, or split
\* if result_as_tuple is None, is true); if no tuple is requested the call
\* fails with a ValueError.
C10_PiecesConcatenated ==
    AllPiecesDone =>
        LET its == split_iter(gf_args.split, gf_polyhedron.ambient_dim)
            parts == [k \in DOMAIN its |->
                         _generating_function_of_integral_points_(
                             intersection(gf_args.polyhedron, its[k]),
                             gf_args.kwds).value]
        IN  IF TupleRequested THEN Returned(TRUE, Flatten(parts))
            ELSE Raised("ValueError")

C10_Witness ==
    /\ AllPiecesDone
    /\ is_True(gf_args.split)
    /\ \E k \in DOMAIN gf_result : Len(gf_result[k]) = 2
    /\ gf_out.kind = "return"
    /\ Len(gf_out.value) = 7

\* the sum of the entries of a tuple of factorizations: its coefficient at v
sum_coefficient(value, v) ==
    SeqSum([k \in DOMAIN value |-> coefficient(expansion(value[k]), v)])

\* the point v satisfies every inequality of the split polyhedron
InSplitPolyhedron(v, split_polyhedron) ==
    \A j \in DOMAIN split_polyhedron.inequalities :
        evaluate(split_polyhedron.inequalities[j], v) >= 0

\* the loop of split=True is about to visit the first of the d! pieces
SplitPrepared == gf_pc = "loop" /\ is_True(gf_args.split) /\ gf_result = <<>>

\* C11: with split=True the sum of the entries of the returned tuple equals
\* the generating function computed with split=False (the sum of its
\* branches), and the d! split polyhedra of the permutations (x_a <= x_b for
\* consecutive entries a < b, x_a < x_b for consecutive entries a > b) are
\* pairwise disjoint on integer points and together contain every integer
\* point: every point lies in exactly one of them.
C11_SummationProperty ==
    /\ SplitPrepared =>
           /\ Len(gf_todo) = Len(Permutations_(1..gf_polyhedron.ambient_dim))
           /\ \A v \in BoxVectors(gf_polyhedron.ambient_dim) :
                  Cardinality({k \in DOMAIN gf_todo :
                                  InSplitPolyhedron(v, gf_todo[k])}) = 1
    /\ (gf_done /\ is_True(gf_args.split) /\ gf_out.kind = "return"
           /\ gf_out.as_tuple) =>
           With(_generating_function_of_integral_points_(gf_polyhedron, gf_args.kwds),
                LAMBDA G :
               G.raised = "" =>
                   \A v \in BoxVectors(gf_polyhedron.ambient_dim) :
                       sum_coefficient(gf_out.value, v) = sum_coefficient(G.value, v))

\* split=True has returned a tuple with two entries that are not zero
C11_Witness ==
    /\ gf_done
    /\ is_True(gf_args.split)
    /\ gf_out.kind = "return"
    /\ gf_out.as_tuple
    /\ _generating_function_of_integral_points_(gf_polyhedron, gf_args.kwds).raised = ""
    /\ Cardinality({k \in DOMAIN gf_out.value :
                        expansion(gf_out.value[k]) # <<>>}) >= 2

\* P is the polyhedron x_a <= x_b, x >= 0 in three variables
IsChain(P, a, b) ==
    /\ P.ambient_dim = 3
    /\ ~P.empty
    /\ Points(P) = {v \in BoxVectors(3) : v[a + 1] <= v[b + 1]}

\* the call asks for the single factorization of the whole polyhedron
SingleFactorizationCall ==
    /\ is_False(gf_args.split)
    /\ ~TupleRequested
    /\ gf_args.kwds.indices.type = "NoneType"

\* the call returned the factorization with numerator 1 and the denominator
\* factors 1 - t for exactly the terms t of S, each once
ReturnedFactors(S) ==
    /\ gf_out.kind = "return"
    /\ ~gf_out.as_tuple
    /\ gf_out.value.unit = 1
    /\ gf_out.value.known
    /\ gf_out.value.numerator = zero_vector(3)
    /\ SeqRange(gf_out.value.terms) = S
    /\ Len(gf_out.value.terms) = Cardinality(S)

\* C12 as stated: for x0 - x1 <= 0 with x0, x1, x2 >= 0 the result has the
\* numerator 1 and the denominator factors 1 - t for t in {y0, y1, y0*y2}.
C12_AsStated ==
    (gf_done /\ SingleFactorizationCall /\ IsChain(gf_polyhedron, 0, 1)) =>
        ReturnedFactors({<<1, 0, 0>>, <<0, 1, 0>>, <<1, 0, 1>>})

\* C12: for the single chain inequality x2 - x0 <= 0 together with
\* x0, x1, x2 >= 0 the result is the factorization with numerator 1 and the
\* denominator factors 1 - t for exactly the terms t in {y0, y1, y0*y2}; for
\* x0 - x1 <= 0 the terms are {y1, y2, y0*y1}.
C12_ChainFactors ==
    /\ (gf_done /\ SingleFactorizationCall /\ IsChain(gf_polyhedron, 2, 0)) =>
           ReturnedFactors({<<1, 0, 0>>, <<0, 1, 0>>, <<1, 0, 1>>})
    /\ (gf_done /\ SingleFactorizationCall /\ IsChain(gf_polyhedron, 0, 1)) =>
           ReturnedFactors({<<0, 1, 0>>, <<0, 0, 1>>, <<1, 1, 0>>})

C12_Witness ==
    /\ gf_done
    /\ SingleFactorizationCall
    /\ IsChain(gf_polyhedron, 2, 0)
    /\ ReturnedFactors({<<1, 0, 0>>, <<0, 1, 0>>, <<1, 0, 1>>})

----------------------------------------------------------------------------
(* Claims about the transforms *)

tr_done == tr_pc = "done"

\* the transform was built: nothing was raised
Built == tr_done /\ tr_out.raised = ""

\* the nonnegative integer points, with coordinates up to MaxCoord, that
\* satisfy every inequality
InequalityPoints(inequalities, d) ==
    {w \in BoxVectors(d) :
        \A k \in DOMAIN inequalities : evaluate(inequalities[k], w) >= 0}

\* The coordinate change of the transform T is a bijection between the
\* nonnegative integer points that satisfy T.inequalities and those that
\* satisfy the inequalities: the monomials of the generating function of
\* T.inequalities, with the rules substituted and the factor multiplied, are
\* the points of the inequalities, each once.
RoundTrip(inequalities, T, d) ==
    With(apply_rules(T, Omega_series(T.inequalities, d, <<>>)), LAMBDA image :
        /\ \A k \in DOMAIN image :
               /\ \A i \in DOMAIN image[k] : image[k][i] >= 0
               /\ \A j \in DOMAIN inequalities : evaluate(inequalities[j], image[k]) >= 0
        /\ Cardinality(SeqRange(image)) = Len(image)
        /\ InequalityPoints(inequalities, d) \subseteq SeqRange(image))

\* C13: for every input inequality list SplitOffSimpleInequalities builds a
\* transform T such that the generating function of the input inequalities
\* equals the generating function of T.inequalities after substituting
\* T.rules and multiplying by T.factor: the coordinate change is a bijection
\* between the nonnegative integer points satisfying T.inequalities and those
\* satisfying every input inequality.
C13_SplitOffRoundTrip ==
    tr_done =>
        /\ tr_out.raised = ""
        /\ RoundTrip(tr_args.inequalities, tr_out, tr_args.d)

\* no two chain inequalities of the list have the same edge
distinct_chain_edges(inequalities) ==
    \A k, l \in DOMAIN inequalities :
        (/\ k # l
         /\ classify(inequalities[k]) = "chain"
         /\ classify(inequalities[l]) = "chain")
            => chain_edge(inequalities[k]) # chain_edge(inequalities[l])

\* whenever a transform is built from a list in which no edge has two chain
\* inequalities, the round trip holds
SplitOffRoundTripDistinctEdges ==
    (Built /\ distinct_chain_edges(tr_args.inequalities)) =>
        RoundTrip(tr_args.inequalities, tr_out, tr_args.d)

\* the vector e under the substitution x_i = m_i*x_i' + r_i of mod: the
\* coefficient of each constrained coordinate is multiplied by m_i and the
\* constant is increased by coefficient*r_i
Substituted(e, mod) ==
    [j \in DOMAIN e |->
        IF j = 1
        THEN e[1] + SeqSum([i \in 1..(Len(e) - 1) |->
                               IF (i - 1) \in DOMAIN mod THEN e[i + 1] * mod[i - 1][2]
                               ELSE 0])
        ELSE IF (j - 2) \in DOMAIN mod THEN e[j] * mod[j - 2][1]
        ELSE e[j]]

\* the point x that corresponds to x' under the rules and the factor of T
Corresponding(T, x) == vec_add(subs(x, T.rules), T.factor)

\* C14: for a mod dictionary {i: (m_i, r_i)}, the inequalities and equations
\* of TransformMod are those of the substitution x_i = m_i*x_i' + r_i, the
\* factor is the product of the y_i^r_i, and rules maps y_i to y_i^m_i for
\* constrained i and to y_i otherwise, so that a point x' satisfies a
\* transformed vector iff the corresponding x satisfies the original one.
C14_TransformModRoundTrip ==
    tr_done =>
        LET mod == tr_args.mod
            d == tr_args.d
            T == tr_out
        IN  /\ T.raised = ""
            /\ T.inequalities = [k \in DOMAIN tr_args.inequalities |->
                                    Substituted(tr_args.inequalities[k], mod)]
            /\ T.equations = [k \in DOMAIN tr_args.equations |->
                                 Substituted(tr_args.equations[k], mod)]
            /\ T.factor = [i \in 1..d |->
                              IF (i - 1) \in DOMAIN mod THEN mod[i - 1][2] ELSE 0]
            /\ T.rules = [i \in 0..(d - 1) |->
                             vec_scale(IF i \in DOMAIN mod THEN mod[i][1] ELSE 1,
                                       unit_vector(d, i))]
            /\ \A x \in [1..d -> 0..3] :
                   /\ Corresponding(T, x) =
                          [i \in 1..d |-> IF (i - 1) \in DOMAIN mod
                                          THEN mod[i - 1][1] * x[i] + mod[i - 1][2]
                                          ELSE x[i]]
                   /\ \A k \in DOMAIN tr_args.inequalities :
                          evaluate(T.inequalities[k], x) =
                              evaluate(tr_args.inequalities[k], Corresponding(T, x))
                   /\ \A k \in DOMAIN tr_args.equations :
                          evaluate(T.equations[k], x) =
                              evaluate(tr_args.equations[k], Corresponding(T, x))

\* both coordinates are constrained with a residue that is not zero, and
\* the inequality and the equation have changed
C14_Witness ==
    /\ Built
    /\ DOMAIN tr_args.mod = {0, 1}
    /\ tr_args.mod[0][2] # 0 /\ tr_args.mod[1][2] # 0
    /\ tr_args.mod[0][1] # tr_args.mod[1][1]
    /\ tr_args.equations # <<>>
    /\ tr_out.equations[1][1] # tr_args.equations[1][1]
    /\ tr_out.inequalities[1][1] # tr_args.inequalities[1][1]
    /\ tr_out.inequalities[1][2] # tr_args.inequalities[1][2]

\* the coordinates that EliminateByEquations eliminates
Eliminated == SeqRange(tr_out.indices)

\* the points whose free coordinates are small and whose eliminated
\* coordinates are zero
FreePoints(d) == {x \in [1..d -> 0..2] : \A p \in Eliminated : x[p + 1] = 0}

\* the point satisfies the equations and the inequalities of the call
SatisfiesSystem(w) ==
    /\ \A k \in DOMAIN tr_args.equations : evaluate(tr_args.equations[k], w) = 0
    /\ \A k \in DOMAIN tr_args.inequalities : evaluate(tr_args.inequalities[k], w) >= 0

EliminateRaisesOnlyWithoutTE ==
    (tr_done /\ tr_out.raised # "") =>
        tr_out.raised \in {"NonIntegralExponent", "AssertionError"}

----------------------------------------------------------------------------
(* Claims about the validation of the single-shot reduction *)

\* indices is given and some inequality vector or equation vector of P has a
\* length different from len(indices) + 1
Mismatch(P) ==
    /\ gf_args.kwds.indices.type # "NoneType"
    /\ \E e \in SeqRange(P.inequalities) \cup SeqRange(P.equations) :
           Len(e) # Len(gf_args.kwds.indices.items) + 1

\* the k-th polyhedron that the loop of split hands to the single-shot
\* reduction
piece(k) ==
    intersection(gf_args.polyhedron,
                 split_iter(gf_args.split, gf_polyhedron.ambient_dim)[k])

\* split=False: the single-shot reduction was called with the polyhedron and
\* the call is over
SingleShotDone == gf_done /\ is_False(gf_args.split) /\ Admissible(gf_polyhedron)

\* the single-shot reduction of the piece after the pieces of gf_result
\* raised an exception
PieceRaised == gf_done /\ SplitRequested /\ gf_todo # <<>> /\ gf_out.kind = "raise"

\* C16 as stated: the single-shot reduction raises a ValueError whenever some
\* inequality vector or equation vector has a length different from
\* len(indices) + 1.
C16_AsStated ==
    /\ (SingleShotDone /\ Mismatch(gf_polyhedron)) => Raised("ValueError")
    /\ \A k \in DOMAIN gf_result : ~Mismatch(piece(k))

\* the polyhedron is not empty and its H-representation has an inequality:
\* the single-shot reduction gets as far as the comparison of the lengths
LengthsCompared(P) == ~P.empty /\ P.inequalities # <<>>

\* C16: the single-shot reduction of a polyhedron that is not empty and has
\* at least one inequality raises a ValueError whenever some inequality
\* vector or equation vector has a length different from len(indices) + 1,
\* whatever residue classes and transforms the vectors would lead to: no
\* piece with such a vector is answered with factorizations, and the
\* exception of such a piece ends the call.  An empty polyhedron is answered
\* with the zero factorization and one without inequalities with a
\* NotImplementedError before the lengths are compared.
C16_ValueErrorOnMismatch ==
    /\ (SingleShotDone /\ Mismatch(gf_polyhedron)) =>
           IF LengthsCompared(gf_polyhedron) THEN Raised("ValueError")
           ELSE Raised("NotImplementedError")
    /\ \A k \in DOMAIN gf_result :
           Mismatch(piece(k)) => piece(k).empty
    /\ (PieceRaised /\ Mismatch(piece(Len(gf_result) + 1))) =>
           IF LengthsCompared(piece(Len(gf_result) + 1)) THEN Raised("ValueError")
           ELSE Raised("NotImplementedError")

\* a polyhedron with an equation whose residue classes would give two
\* branches was passed with too many indices, and the ValueError was raised
C16_Witness ==
    /\ SingleShotDone
    /\ Mismatch(gf_polyhedron)
    /\ LengthsCompared(gf_polyhedron)
    /\ gf_polyhedron.equations # <<>>
    /\ Len(generate_mods(gf_polyhedron.equations).mods) = 2
    /\ Len(gf_args.kwds.indices.items) = gf_polyhedron.ambient_dim + 1
    /\ Raised("ValueError")

\* a piece of a split was passed with too few indices and its ValueError
\* ended the call
PieceValueError ==
    /\ PieceRaised
    /\ Mismatch(piece(Len(gf_result) + 1))
    /\ LengthsCompared(piece(Len(gf_result) + 1))
    /\ Raised("ValueError")

----------------------------------------------------------------------------
(* Claims about the order of the denominator factors *)

\* the factorizations that the call returned
returned_factorizations ==
    IF gf_out.kind # "return" THEN <<>>
    ELSE IF gf_out.as_tuple THEN gf_out.value
    ELSE <<gf_out.value>>

\* how often t is among the terms
occurrences(terms, t) == Cardinality({k \in DOMAIN terms : terms[k] = t})

\* the terms are in the order of their keys, the largest key first
largest_key_first(terms) ==
    \A i, j \in DOMAIN terms :
        i < j => (terms[i] = terms[j] \/ tuple_less(key(terms[j]), key(terms[i])))

\* the call has sort_factors set
SortRequested == gf_args.kwds.sort_factors

\* C17: with sort_factors set, every factorization of the output whose
\* factors are known lists the numerator and then the denominator factors
\* 1 - t with the terms t ordered by the key (negative sum of the absolute
\* exponents, exponent tuple), the largest key first, so that the order
\* depends on the multiset of the terms only; the numerator, the multiset of
\* the terms and the function itself are those of the same call without
\* sort_factors.
C17_SortedFactors ==
    /\ (gf_done /\ SortRequested) =>
           \A k \in DOMAIN returned_factorizations :
               (returned_factorizations[k].unit = 1 /\ returned_factorizations[k].known)
                   => largest_key_first(returned_factorizations[k].terms)
    /\ (SingleShotDone /\ SortRequested /\ gf_out.kind = "return") =>
           With(_generating_function_of_integral_points_(
                    gf_polyhedron, [gf_args.kwds EXCEPT !.sort_factors = FALSE]),
                LAMBDA U :
                    /\ U.raised = ""
                    /\ Len(U.value) = Len(returned_factorizations)
                    /\ \A k \in DOMAIN U.value :
                           /\ U.value[k].unit = returned_factorizations[k].unit
                           /\ U.value[k].known = returned_factorizations[k].known
                           /\ U.value[k].series = returned_factorizations[k].series
                           /\ U.value[k].numerator = returned_factorizations[k].numerator
                           /\ Len(U.value[k].terms) = Len(returned_factorizations[k].terms)
                           /\ \A t \in SeqRange(U.value[k].terms) :
                                  occurrences(U.value[k].terms, t) =
                                      occurrences(returned_factorizations[k].terms, t))

\* a call with sort_factors returned three denominator factors in an order
\* that differs from the order in which they were produced
C17_Witness ==
    /\ SingleShotDone
    /\ SortRequested
    /\ gf_out.kind = "return"
    /\ ~gf_out.as_tuple
    /\ gf_out.value.known
    /\ Len(gf_out.value.terms) = 3
    /\ largest_key_first(gf_out.value.terms)
    /\ With(_generating_function_of_integral_points_(
                gf_polyhedron, [gf_args.kwds EXCEPT !.sort_factors = FALSE]),
            LAMBDA U : U.raised = "" /\ U.value[1].terms # gf_out.value.terms)

----------------------------------------------------------------------------
(* Claims about the stages of a residue-class branch *)

\* s is an initial part of t
is_prefix(s, t) == Len(s) <= Len(t) /\ \A k \in DOMAIN s : s[k] = t[k]

br_done == br_pc = "done"

\* the stages in the order of the claim
StagesInOrder ==
    <<"TransformMod", "EliminateByEquations", "SplitOffSimpleInequalities", "Omega">>

\* the Omega reduction has started
OmegaStarted == br_pc = "Omega" \/ (br_pc # "idle" /\ Len(br_st.stages) = 4)

\* C18: for each residue-class branch the stages run in the order
\* TransformMod, EliminateByEquations, SplitOffSimpleInequalities, Omega
\* reduction; afterwards apply_rules is applied in the reverse order, first
\* the rules of the splitter, then those of the equation eliminator, then
\* those of the modulus transformer, and not before the Omega reduction is
\* over; no equation remains when the Omega reduction starts; and the value
\* or exception of the finished call is that of
\* __generating_function_of_integral_points__.
C18_StagesAndReverseRules ==
    br_pc # "idle" =>
        /\ is_prefix(br_st.stages, StagesInOrder)
        /\ is_prefix(br_st.applied, <<"T_inequalities", "T_equations", "T_mod">>)
        /\ br_st.applied # <<>> => br_st.stages = StagesInOrder
        /\ OmegaStarted => br_st.equations = <<>>
        /\ (br_done /\ br_st.out.raised = "") => Len(br_st.applied) = 3
        /\ br_done =>
               br_st.out = __generating_function_of_integral_points__(
                               br_args.indices, br_args.inequalities,
                               br_args.equations, br_args.mod, br_args.sort_factors)

\* a branch with a residue class and an equation has run all its stages and
\* applied the three sets of rules, none of them trivial
C18_Witness ==
    /\ br_done
    /\ br_st.out.raised = ""
    /\ br_args.mod # <<>>
    /\ br_args.equations # <<>>
    /\ br_st.stages = StagesInOrder
    /\ br_st.applied = <<"T_inequalities", "T_equations", "T_mod">>
    /\ br_st.T_mod.factor # zero_vector(br_d)
    /\ br_st.T_equations.indices # <<>>
    /\ br_st.T_inequalities.inequalities # br_st.T_equations.inequalities
    /\ br_st.out.value.series # <<>>

\* a call whose equation is zero ends at "assert not equations"
AssertNotEquations ==
    /\ br_done
    /\ br_st.out.raised = "AssertionError"
    /\ br_st.equations # <<>>
    /\ Len(br_st.stages) = 3

----------------------------------------------------------------------------
(* Claims about prepare_equations_transformation *)

\* prepare_equations_transformation was called and is over
PrepareDone == tr_done /\ tr_args.op = "prepare_equations_transformation"

\* the columns 1 .. d of E, its homogeneous part
homogeneous_columns(E) == [c \in 1..(ncols(E) - 1) |-> c]

\* the homogeneous part of E has full row rank
FullRowRank(E) == rank(matrix_from_columns(E, homogeneous_columns(E))) = nrows(E)

\* C19: for every equation matrix E whose homogeneous part has full row
\* rank, prepare_equations_transformation passes its assertion
\* len(indices) == E.nrows() and returns indices with exactly one pivot
\* column per equation, strictly increasing and none of them column 0, such
\* that the sub-matrix of E on these columns is invertible and the sub-matrix
\* of TE on these columns is the identity matrix.
C19_PivotColumns ==
    (PrepareDone /\ FullRowRank(tr_args.equations)) =>
        /\ tr_out.raised = ""
        /\ Len(tr_out.indices) = nrows(tr_args.equations)
        /\ \A j \in DOMAIN tr_out.indices :
               /\ tr_out.indices[j] >= 1
               /\ tr_out.indices[j] <= ncols(tr_args.equations) - 1
               /\ j > 1 => tr_out.indices[j - 1] < tr_out.indices[j]
        /\ Det(matrix_from_columns(tr_args.equations, tr_out.indices)) # 0
        /\ tr_out.TE.den > 0
        /\ \A k \in DOMAIN tr_out.TE.num : \A j \in DOMAIN tr_out.indices :
               tr_out.TE.num[k][tr_out.indices[j] + 1] =
                   IF k = j THEN tr_out.TE.den ELSE 0

\* the assertion fails exactly when the homogeneous part has no full row rank
AssertionIffRankDeficient ==
    PrepareDone => (tr_out.raised = "AssertionError" <=> ~FullRowRank(tr_args.equations))

\* two equations of full row rank whose last nonzero columns are dependent:
\* a column was scanned and not accepted, and TE has a denominator
C19_Witness ==
    /\ PrepareDone
    /\ FullRowRank(tr_args.equations)
    /\ tr_out.raised = ""
    /\ Len(tr_out.indices) = 2
    /\ tr_out.indices = <<1, 3>>
    /\ \E k \in DOMAIN tr_args.equations : tr_args.equations[k][3] # 0
    /\ tr_out.TE.den > 1

\* the accepted columns that are scanned before column c
accepted_before(c) == SelectSeq2(tr_out.indices, LAMBDA s : s > c)

\* the sets of nrows columns of the homogeneous part on which E is invertible
invertible_column_sets(E) ==
    {C \in SUBSET (1..(ncols(E) - 1)) :
        /\ Cardinality(C) = nrows(E)
        /\ Det(matrix_from_columns(E, SortedSeq(C))) # 0}

\* the set S is before the set C where the columns are compared from the
\* last one backward: the highest column in which they differ is in S
preferred(S, C) == S = C \/ SetMax((S \ C) \cup (C \ S)) \in S

\* C20: the pivot columns are chosen by scanning the columns from the last
\* index backward: a column is a pivot exactly when there is not yet one
\* pivot per equation and the column strictly increases the rank of the
\* pivots accepted before it; so among the column sets of maximal rank the
\* one with the higher-indexed columns is selected.
C20_BackwardScan ==
    (PrepareDone /\ tr_out.raised = "") =>
        /\ \A c \in 1..(ncols(tr_args.equations) - 1) :
               c \in SeqRange(tr_out.indices) <=>
                   /\ Len(accepted_before(c)) < nrows(tr_args.equations)
                   /\ rank(matrix_from_columns(tr_args.equations,
                                               <<c>> \o accepted_before(c)))
                          > rank(matrix_from_columns(tr_args.equations,
                                                     accepted_before(c)))
        /\ SeqRange(tr_out.indices) \in invertible_column_sets(tr_args.equations)
        /\ \A C \in invertible_column_sets(tr_args.equations) :
               preferred(SeqRange(tr_out.indices), C)

\* all three column pairs of a system of two equations are invertible and
\* the last two columns are the pivots
C20_Witness ==
    /\ PrepareDone
    /\ tr_out.raised = ""
    /\ nrows(tr_args.equations) = 2
    /\ Cardinality(invertible_column_sets(tr_args.equations)) = 3
    /\ tr_out.indices = <<2, 3>>

\* one equation with a zero last column and two nonzero columns: the pivot
\* is the higher of the nonzero columns
HigherNonzeroColumn ==
    /\ PrepareDone
    /\ tr_out.raised = ""
    /\ nrows(tr_args.equations) = 1
    /\ Cardinality(invertible_column_sets(tr_args.equations)) = 2
    /\ tr_out.indices = <<2>>

----------------------------------------------------------------------------
(* Claims about the result of EliminateByEquations *)

\* EliminateByEquations was called with equations that are not all zero and
\* built its transform
Eliminating ==
    /\ Built
    /\ tr_args.op = "EliminateByEquations"
    /\ ~is_zero_matrix(tr_args.equations)

\* the coordinates whose column of E is not zero
nonzero_coordinates(E) ==
    {c \in 0..(ncols(E) - 2) : \E k \in DOMAIN E : E[k][c + 2] # 0}

\* C21 as stated: the keys of rules are the generators of the pivot
\* coordinates.
C21_AsStated ==
    Eliminating => DOMAIN tr_out.rules = Eliminated

\* C21: EliminateByEquations builds the sorted tuple indices of the
\* eliminated (pivot) coordinate slots, a factor that is a product of powers
\* of the pivot generators accounting for the constant terms, and rules whose
\* keys are the generators of the free coordinates with a nonzero column;
\* each such generator is mapped to itself times powers of the pivot
\* generators, and these powers encode the affine relation: every equation
\* vanishes on the exponents of factor with constant 1 and on the exponents
\* of the image of a free generator with constant 0.  For equations that are
\* all zero factor is 1, rules and indices are empty.
C21_RulesFactorIndices ==
    /\ (Built /\ tr_args.op = "EliminateByEquations"
              /\ is_zero_matrix(tr_args.equations)) =>
           /\ tr_out.factor = zero_vector(tr_args.d)
           /\ tr_out.rules = <<>>
           /\ tr_out.indices = <<>>
    /\ Eliminating =>
           /\ \A j \in DOMAIN tr_out.indices :
                  /\ tr_out.indices[j] \in 0..(tr_args.d - 1)
                  /\ j > 1 => tr_out.indices[j - 1] < tr_out.indices[j]
           /\ Len(tr_out.indices) = nrows(tr_args.equations)
           /\ DOMAIN tr_out.rules = nonzero_coordinates(tr_args.equations) \ Eliminated
           /\ \A i \in 0..(tr_args.d - 1) :
                  i \notin Eliminated => tr_out.factor[i + 1] = 0
           /\ \A k \in DOMAIN tr_args.equations :
                  evaluate(tr_args.equations[k], tr_out.factor) = 0
           /\ \A g \in DOMAIN tr_out.rules :
                  /\ tr_out.rules[g][g + 1] = 1
                  /\ \A i \in 0..(tr_args.d - 1) :
                         (i \notin Eliminated /\ i # g) => tr_out.rules[g][i + 1] = 0
                  /\ \A k \in DOMAIN tr_args.equations :
                         evaluate(tr_args.equations[k], tr_out.rules[g])
                             = tr_args.equations[k][1]

\* as in the doctest with two equations: two coordinates are eliminated, the
\* factor has a negative power and the rule of the free generator has powers
\* of both pivot generators
C21_Witness ==
    /\ Eliminating
    /\ tr_out.indices = <<1, 2>>
    /\ DOMAIN tr_out.rules = {0}
    /\ \E i \in DOMAIN tr_out.factor : tr_out.factor[i] < 0
    /\ tr_out.rules[0][2] # 0
    /\ tr_out.rules[0][3] # 0

----------------------------------------------------------------------------
(* Claims about the inequalities that SplitOffSimpleInequalities splits off *)

\* SplitOffSimpleInequalities was called and built its transform
SplitOffBuilt == Built /\ tr_args.op = "SplitOffSimpleInequalities"

\* the coordinates with the coefficient c
coordinates_with(coeffs, c) == {i \in 1..(Len(coeffs) - 1) : coeffs[i + 1] = c}

\* one coefficient +1, one coefficient -1 and zeros elsewhere except the
\* constant
plus_minus_one(coeffs) ==
    /\ Cardinality(coordinates_with(coeffs, 1)) = 1
    /\ Cardinality(coordinates_with(coeffs, -1)) = 1
    /\ Cardinality(coordinates_with(coeffs, 0)) = Len(coeffs) - 3

\* a lower bound: only a +1 and a negative constant
lower_bound(coeffs) ==
    /\ Cardinality(coordinates_with(coeffs, 1)) = 1
    /\ Cardinality(coordinates_with(coeffs, 0)) = Len(coeffs) - 2
    /\ coeffs[1] < 0

\* no coefficient is negative: the inequality holds in the orthant
holds_trivially(coeffs) == \A i \in DOMAIN coeffs : coeffs[i] >= 0

\* C22 as stated, for a single inequality: it is handled by the coordinate
\* change and not passed on if it has one +1 and one -1 or is a lower bound,
\* and every other inequality that is not dropped is passed through
\* untouched.
C22_AsStated ==
    (SplitOffBuilt /\ Len(tr_args.inequalities) = 1) =>
        tr_out.inequalities =
            IF \/ plus_minus_one(tr_args.inequalities[1])
               \/ lower_bound(tr_args.inequalities[1])
               \/ holds_trivially(tr_args.inequalities[1])
            THEN <<>>
            ELSE tr_args.inequalities

\* the inequality is a link of the chain graph
is_link(coeffs) == plus_minus_one(coeffs) /\ coeffs[1] <= 0

\* the inequalities that are passed on
passed_on(inequalities) ==
    SelectSeq2(inequalities, LAMBDA coeffs : ~holds_trivially(coeffs) /\ ~is_link(coeffs))

\* the inequality with the coordinate change of the transform substituted:
\* T * vector(coeffs) for the matrix T with the rows of factor and rules
substituted(coeffs, T) ==
    [u \in 1..Len(coeffs) |->
        IF u = 1 THEN evaluate(coeffs, T.factor)
        ELSE SeqSum([v \in 1..(Len(coeffs) - 1) |-> T.rules[u - 2][v] * coeffs[v + 1]])]

\* C22: SplitOffSimpleInequalities treats an inequality as a link of the
\* chain graph, handled by the coordinate change and not passed on, exactly
\* when it has one coefficient +1, one coefficient -1, zeros elsewhere and a
\* constant that is not positive; an inequality without negative coefficient
\* and constant is dropped; every other inequality, a lower bound with
\* negative constant and a +1/-1 inequality with positive constant included,
\* is passed on in input order with the coordinate change substituted, ahead
\* of the extra inequalities of the chain graph, and untouched if there is
\* no link.
C22_ChainLinks ==
    SplitOffBuilt =>
        /\ DOMAIN tr_out.potential =
               UNION {coordinates_with(tr_args.inequalities[k], 1)
                          \cup coordinates_with(tr_args.inequalities[k], -1) :
                      k \in {k \in DOMAIN tr_args.inequalities :
                                is_link(tr_args.inequalities[k])}}
        /\ Len(tr_out.inequalities) >= Len(passed_on(tr_args.inequalities))
        /\ \A k \in DOMAIN passed_on(tr_args.inequalities) :
               tr_out.inequalities[k] =
                   substituted(passed_on(tr_args.inequalities)[k], tr_out)
        /\ (\A k \in DOMAIN tr_args.inequalities : ~is_link(tr_args.inequalities[k])) =>
               /\ tr_out.inequalities = passed_on(tr_args.inequalities)
               /\ tr_out.factor = zero_vector(tr_args.d)
               /\ \A i \in DOMAIN tr_out.rules :
                      tr_out.rules[i] = unit_vector(tr_args.d, i)

\* as in the doctest: the link x0 <= x1 is split off and the other
\* inequality (2, -1, -1, 1) is passed on as (2, -2, -1, 1)
C22_Witness ==
    /\ SplitOffBuilt
    /\ tr_args.inequalities = << <<0, -1, 1, 0>>, <<2, -1, -1, 1>> >>
    /\ tr_out.inequalities = << <<2, -2, -1, 1>> >>
    /\ tr_out.rules[0] = <<1, 1, 0>>

\* a lower bound is passed on
LowerBoundPassedOn ==
    /\ SplitOffBuilt
    /\ tr_args.inequalities = << <<-1, 1, 0, 0>> >>
    /\ tr_out.inequalities = << <<-1, 1, 0, 0>> >>

\* a +1/-1 inequality with a positive constant is passed on
PositiveConstantPassedOn ==
    /\ SplitOffBuilt
    /\ tr_args.inequalities = << <<1, -1, 1, 0>> >>
    /\ tr_out.inequalities = << <<1, -1, 1, 0>> >>

----------------------------------------------------------------------------
(* Claims about the potentials and paths of the chain graph *)

\* the edges (j, i) of the chain graph: x_i - x_j + constant >= 0 is a link
chain_graph_edges ==
    {<<the(coordinates_with(tr_args.inequalities[k], -1)),
       the(coordinates_with(tr_args.inequalities[k], 1))>> :
        k \in {k \in DOMAIN tr_args.inequalities : is_link(tr_args.inequalities[k])}}

\* the constant of the edge: that of the last link of the edge
edge_constant(e) ==
    tr_args.inequalities[
        SetMax({k \in DOMAIN tr_args.inequalities :
                   /\ is_link(tr_args.inequalities[k])
                   /\ tr_args.inequalities[k][e[1] + 1] = -1
                   /\ tr_args.inequalities[k][e[2] + 1] = 1})][1]

in_neighbours(v) == {e[1] : e \in {e \in chain_graph_edges : e[2] = v}}

\* potential[n] + constant(n -> v)
via(n, v) == tr_out.potential[n] + edge_constant(<<n, v>>)

\* the in-neighbour of v before v on its path
predecessor(v) == tr_out.paths[v][Len(tr_out.paths[v]) - 1]

\* the part of the path p after its first ell nodes
after_prefix(p, ell) == SeqRange(SubSeq(p, ell + 1, Len(p)))

\* the extra inequality of the edge n -> v
extra_inequality(n, v) ==
    LET ell == common_prefix_len(tr_out.paths[n], tr_out.paths[v])
    IN  [u \in 1..(tr_args.d + 1) |->
            IF u = 1 THEN via(n, v) - tr_out.potential[v]
            ELSE IF (u - 1) \in after_prefix(tr_out.paths[n], ell) THEN -1
            ELSE IF (u - 1) \in after_prefix(tr_out.paths[v], ell) THEN 1
            ELSE 0]

\* the incoming edges that are not on the path of their end
other_incoming_edges ==
    {e \in chain_graph_edges : e[1] # predecessor(e[2])}

\* the inequalities of the transform behind those that were passed on
inequalities_extra ==
    SubSeq(tr_out.inequalities, Len(passed_on(tr_args.inequalities)) + 1,
           Len(tr_out.inequalities))

\* C23: in the chain graph, potential[v] is the minimum over the
\* in-neighbours n of v of potential[n] + constant(n -> v), and 0 for a node
\* without in-neighbour, hence never positive; a minimising in-neighbour is
\* the predecessor of v on its path; and every other incoming edge n -> v
\* yields exactly one extra inequality, with the nonnegative constant
\* potential[n] + constant(n -> v) - potential[v], the coefficient +1 on the
\* part of the path of v after the common prefix and -1 on the part of the
\* path of n after the common prefix.
C23_PotentialsAndExtras ==
    SplitOffBuilt =>
        /\ DOMAIN tr_out.paths = DOMAIN tr_out.potential
        /\ \A v \in DOMAIN tr_out.potential :
               /\ tr_out.potential[v] <= 0
               /\ IF in_neighbours(v) = {}
                  THEN tr_out.potential[v] = 0 /\ tr_out.paths[v] = <<v>>
                  ELSE /\ \A n \in in_neighbours(v) : tr_out.potential[v] <= via(n, v)
                       /\ Len(tr_out.paths[v]) >= 2
                       /\ predecessor(v) \in in_neighbours(v)
                       /\ tr_out.potential[v] = via(predecessor(v), v)
                       /\ tr_out.paths[v] = tr_out.paths[predecessor(v)] \o <<v>>
        /\ Len(inequalities_extra) = Cardinality(other_incoming_edges)
        /\ \A e \in other_incoming_edges :
               /\ extra_inequality(e[1], e[2]) \in SeqRange(inequalities_extra)
               /\ extra_inequality(e[1], e[2])[1] >= 0
        /\ \A k \in DOMAIN inequalities_extra :
               \E e \in other_incoming_edges :
                   inequalities_extra[k] = extra_inequality(e[1], e[2])

\* two links into x2, x0 <= x2 and x1 + 1 <= x2: the path of x2 comes from
\* x1 and the edge from x0 gives the extra inequality (1, -1, 1, 1)
C23_Witness ==
    /\ SplitOffBuilt
    /\ in_neighbours(3) = {1, 2}
    /\ tr_out.potential[3] = -1
    /\ tr_out.paths[3] = <<2, 3>>
    /\ inequalities_extra = << <<1, -1, 1, 1>> >>

\* a chain x0 <= x1 <= x2 with the link x0 <= x2: the paths of the edge
\* x0 -> x2 have a common prefix
ExtraWithCommonPrefix ==
    /\ SplitOffBuilt
    /\ chain_graph_edges = {<<1, 2>>, <<2, 3>>, <<1, 3>>}
    /\ Len(inequalities_extra) = 1
    /\ \E e \in other_incoming_edges :
           common_prefix_len(tr_out.paths[e[1]], tr_out.paths[e[2]]) > 0

----------------------------------------------------------------------------
(* Claims about the setup of the Omega reduction *)

OmegaSetupDone == tr_done /\ tr_args.op = "_generating_function_via_Omega_"

\* the coordinates that are not skipped, in increasing order
kept_coordinates == SortedSeq((0..(tr_args.d - 1)) \ SeqRange(tr_args.skip_indices))

\* some inequality has a nonzero coefficient at a skipped coordinate
SkippedCoordinateUsed ==
    \E i \in SeqRange(tr_args.skip_indices) : \E k \in DOMAIN tr_args.inequalities :
        tr_args.inequalities[k][i + 2] # 0

\* C24: in the setup of the Omega reduction every coordinate of skip_indices
\* must map to itself: if some inequality has a nonzero coefficient at a
\* skipped coordinate the run ends with an AssertionError; otherwise the
\* skipped coordinates are left out and the initial list of denominator
\* terms has exactly one term per coordinate that is not skipped, in
\* coordinate order, the generator of the coordinate times the bookkeeping
\* variables to the powers of its coefficients.  The function as the other
\* specifications use it raises in the same cases.
C24_SkippedCoordinates ==
    OmegaSetupDone =>
        /\ tr_out.raised = "AssertionError" <=> SkippedCoordinateUsed
        /\ tr_out.raised # "AssertionError" => tr_out.raised = ""
        /\ tr_out.raised = "" =>
               /\ Len(tr_out.terms) = Len(kept_coordinates)
               /\ \A j \in DOMAIN tr_out.terms :
                      /\ tr_out.terms[j].y = unit_vector(tr_args.d, kept_coordinates[j])
                      /\ tr_out.terms[j].mu =
                             [k \in DOMAIN tr_args.inequalities |->
                                 tr_args.inequalities[k][kept_coordinates[j] + 2]]
               /\ tr_out.numerator.mu =
                      [k \in DOMAIN tr_args.inequalities |-> tr_args.inequalities[k][1]]
        /\ _generating_function_via_Omega_(tr_args.inequalities, tr_args.d,
                                           tr_args.skip_indices).raised = tr_out.raised

\* two inequalities that do not involve the skipped coordinate 1: the terms
\* of the coordinates 0 and 2 are left, with their bookkeeping powers
C24_Witness ==
    /\ OmegaSetupDone
    /\ tr_args.skip_indices = <<1>>
    /\ Len(tr_args.inequalities) = 2
    /\ tr_out.raised = ""
    /\ Len(tr_out.terms) = 2
    /\ tr_out.terms[1].mu # <<0, 0>>
    /\ tr_out.terms[2].mu # <<0, 0>>

\* an inequality involves a skipped coordinate and the setup is aborted
SetupAborted ==
    /\ OmegaSetupDone
    /\ SkippedCoordinateUsed
    /\ tr_out.raised = "AssertionError"

----------------------------------------------------------------------------
(* Claims about split with result_as_tuple=False *)

\* split is True or a list, result_as_tuple is False, and the polyhedron is
\* not empty, over ZZ or QQ, in the orthant and of ambient dimension >= 2
SplitWithoutTuple ==
    /\ SplitRequested
    /\ gf_args.result_as_tuple = PyBool(FALSE)
    /\ Admissible(gf_polyhedron)
    /\ gf_polyhedron.ambient_dim >= 2

\* the number of pieces of the split
number_of_pieces == Len(split_iter(gf_args.split, gf_polyhedron.ambient_dim))

\* C25 as stated: such a call raises ValueError, and only after the
\* generating functions of all pieces have been computed.
C25_AsStated ==
    (gf_done /\ SplitWithoutTuple) =>
        /\ Raised("ValueError")
        /\ Len(gf_result) = number_of_pieces

\* C25: when split is not False and result_as_tuple is explicitly False, no
\* call on a non-empty polyhedron over ZZ or QQ in the nonnegative orthant
\* with ambient dimension >= 2 returns anything: the pieces are computed one
\* after the other; if the single-shot reduction of a piece raises, its
\* exception ends the call at that piece, and otherwise the call raises
\* ValueError after the generating functions of all pieces have been
\* computed.
C25_NeverReturns ==
    /\ SplitWithoutTuple => gf_out.kind # "return"
    /\ (gf_done /\ SplitWithoutTuple) =>
           /\ gf_out.kind = "raise"
           /\ \A k \in DOMAIN gf_result :
                  With(_generating_function_of_integral_points_(piece(k), gf_args.kwds),
                       LAMBDA part : part.raised = "" /\ part.value = gf_result[k])
           /\ IF Len(gf_result) = number_of_pieces
              THEN Raised("ValueError") /\ gf_todo = <<>>
              ELSE /\ gf_todo # <<>>
                   /\ Raised(_generating_function_of_integral_points_(
                                 piece(Len(gf_result) + 1), gf_args.kwds).raised)

\* split=True on a polyhedron in two variables: both pieces were computed
\* and then the ValueError was raised
C25_Witness ==
    /\ gf_done
    /\ SplitWithoutTuple
    /\ is_True(gf_args.split)
    /\ Len(gf_result) = 2
    /\ gf_todo = <<>>
    /\ \E k \in DOMAIN gf_result : gf_result[k] # <<ZeroFactorization>>
    /\ Raised("ValueError")

\* a piece without inequality ended the call before the other pieces
PieceEndedCall ==
    /\ gf_done
    /\ SplitWithoutTuple
    /\ gf_args.kwds.indices.type = "NoneType"
    /\ Len(gf_result) < number_of_pieces
    /\ Raised("NotImplementedError")

----------------------------------------------------------------------------
(* Claims about polyhedra without inequality *)

\* the polyhedron is not empty and its H-representation has no inequality
OnlyEquations(P) == ~P.empty /\ P.inequalities = <<>>

\* C26: a non-empty polyhedron whose H-representation contains no
\* inequality, a single point for example, does not get a generating
\* function: the single-shot reduction raises NotImplementedError, whatever
\* its equations and the indices are, before any length is compared and any
\* transform is run; this holds for the polyhedron of the call and for the
\* pieces of a split, none of which is answered with factorizations.
C26_NoInequalityGiven ==
    /\ (SingleShotDone /\ OnlyEquations(gf_polyhedron)) =>
           Raised("NotImplementedError")
    /\ \A k \in DOMAIN gf_result : ~OnlyEquations(piece(k))
    /\ (PieceRaised /\ OnlyEquations(piece(Len(gf_result) + 1))) =>
           Raised("NotImplementedError")

\* the point x0 = 1 on the line was passed and NotImplementedError raised
C26_Witness ==
    /\ SingleShotDone
    /\ OnlyEquations(gf_polyhedron)
    /\ gf_polyhedron.ambient_dim = 1
    /\ gf_polyhedron.equations = << <<-1, 1>> >>
    /\ Raised("NotImplementedError")

\* a piece of a split is a point and ends the call
PointPiece ==
    /\ PieceRaised
    /\ OnlyEquations(piece(Len(gf_result) + 1))
    /\ Raised("NotImplementedError")

----------------------------------------------------------------------------
(* Claims about the inequalities of EliminateByEquations *)

\* EliminateByEquations has built its transform
EliminateBuilt == Built /\ tr_args.op = "EliminateByEquations"

\* the inequality coeffs has a nonzero coefficient at an eliminated coordinate
uses_pivot(coeffs) == \E p \in Eliminated : coeffs[p + 2] # 0

\* SplitOffSimpleInequalities on the inequalities and equations of the
\* transform built by EliminateByEquations, as in lines 577-584
split_off_next ==
    SplitOffSimpleInequalities(tr_out.inequalities, tr_out.equations, tr_args.d)

ZeroEquationsLeft ==
    /\ EliminateBuilt
    /\ tr_args.equations # <<>>
    /\ tr_out.equations = tr_args.equations

\* a chain link changes the coefficient of an inequality at an eliminated
\* coordinate before the Omega setup
PivotCoefficientChangedByLink ==
    /\ EliminateBuilt
    /\ split_off_next.raised = ""
    /\ \E k \in DOMAIN tr_args.inequalities : \E p \in Eliminated :
           /\ tr_args.inequalities[k][p + 2] # 0
           /\ ~is_link(tr_args.inequalities[k])
           /\ ~holds_trivially(tr_args.inequalities[k])
           /\ \A m \in DOMAIN split_off_next.inequalities :
                  split_off_next.inequalities[m][p + 2]
                      # tr_args.inequalities[k][p + 2]

----------------------------------------------------------------------------
(* Claims about several chain inequalities of one pair of coordinates *)

\* the inequalities k < l are chain inequalities of the same pair (j, i)
same_link(inequalities, k, l) ==
    /\ k < l
    /\ classify(inequalities[k]) = "chain"
    /\ classify(inequalities[l]) = "chain"
    /\ chain_edge(inequalities[k]) = chain_edge(inequalities[l])

\* the list without every chain inequality that has a later chain inequality
\* of the same pair
without_overwritten_links(inequalities) ==
    LET kept == {k \in DOMAIN inequalities :
                    ~\E l \in DOMAIN inequalities : same_link(inequalities, k, l)}
    IN  [n \in 1..Cardinality(kept) |-> inequalities[SortedSeq(kept)[n]]]

\* the list with the inequalities k and l exchanged
exchanged(inequalities, k, l) ==
    [n \in DOMAIN inequalities |->
        IF n = k THEN inequalities[l] ELSE IF n = l THEN inequalities[k]
        ELSE inequalities[n]]

SplitOffDone == tr_done /\ tr_args.op = "SplitOffSimpleInequalities"

====
